---- MODULE Spec2Model ----
(***************************************************************************)
(* Request lifecycle of the brainy bot (src/bot.py) and the outbound call  *)
(* governor of its completion client (src/together_client.py).             *)
(*                                                                         *)
(*   Spec     : debounce scheduler feeding the dispatch queue              *)
(*   SpecPool : dispatch queue and worker pool, fed with flushed Jobs      *)
(*   SpecQ    : the dispatch queue alone (asyncio.PriorityQueue of         *)
(*              (priority, Request) tuples), with deeper queues            *)
(*   SpecGov  : chat_with_fallback / _chat_once / _respect_headers         *)
(*   SpecRetry   : the retry decorator of the client's operations          *)
(*   SpecSend    : send_long_message, cutting and the reply_text stages    *)
(*   SpecSplit   : send_long_message on texts longer than two ceilings     *)
(*   SpecExtract : _extract_code_to_files and the frames that follow       *)
(*   SpecAdmit   : the handlers' generation calls and llm_semaphore        *)
(*   SpecClean   : _clean_text_for_plain_send                              *)
(*   SpecPace    : _respect_headers after each response of _chat_once      *)
(*   SpecLink    : send_long_message on texts with a link at the ceiling   *)
(*   SpecDeliver : a handler's escape_markdown_v2 and send_long_message    *)
(*                                                                         *)
(* Time in Spec is counted in ticks of 0.4 s, time in SpecGov in ticks of  *)
(* 0.5 s.                                                                  *)
(***************************************************************************)
EXTENDS Integers, Sequences, FiniteSets, TLC

\* ---------------------------------------------------------------- bounds
NumSessions == 2        \* chats talking to the bot
MaxInputs == 3          \* text / voice fragments accepted in one run of Spec
MaxModeChanges == 2     \* presses of a mode button in one run
MaxJobs == 2            \* Jobs submitted in one run of SpecPool
MaxFaults == 2          \* failures injected in one run of SpecPool
MaxQ == 7               \* envelopes put on the queue in one run of SpecQ
NumCallers == 2         \* coroutines calling the completion client
MaxCalls == 3           \* client invocations in one run of SpecGov
MaxRetryCalls == 2      \* decorated operations called in one run of SpecRetry
MaxText == 4            \* characters of a text handed to send_long_message
MaxSends == 1           \* calls of send_long_message in one run of SpecSend
MaxHandlers == 3        \* handler calls in one run of SpecAdmit
MaxSteps == 1           \* research steps the planner returns
MaxChunks == 1          \* chunks the research draft is wrapped into
MaxPlain == 4           \* characters of a text given to the plain-text fallback
MaxUrlText == 8         \* characters of such a text made of URL characters
MaxCleans == 2          \* applications of the fallback in one run of SpecClean
MaxTag == 1             \* characters of a fence's language tag
MaxResps == 2           \* responses handled in one run of SpecPace
MaxPre == 2             \* characters before a link in a text of SpecLink
MaxLabel == 1           \* characters of the link's label
MaxUrl == 2             \* characters of the link's URL
MaxBody == 3            \* characters of a fenced block's body

\* ------------------------------------------------------- program constants
DebounceTicks == 2          \* when=0.8 (seconds), in ticks of 0.4 s
MAX_MESSAGE_LENGTH == 12000
worker_count == 3
SemaphoreLimit == 5
ShortHold == 6              \* now + 3.0 (seconds), in ticks of 0.5 s
DefaultLimit == 1           \* limit_rps 0.05, in requests per 20 s
FallbackBase == 4           \* base 2.0 (seconds), in ticks of 0.5 s
HintTicks == 2 * 30         \* a reset hint of 30 s, in ticks of 0.5 s
retries == 4                \* retry_on_server_error(retries=4, ...
retry_delay == 2            \*   delay=2, (seconds)
retry_backoff == 2          \*   backoff=2)
LongWait == 60              \* wait_time = 60 (seconds)
MAX == 3                    \* MAX = 4096 (characters), scaled down

Sessions == 1..NumSessions
Callers == 1..NumCallers
LLAMA_FREE == "apriel-1.6"
DEEPSEEK_FREE == "apriel-1.5"
Models == {LLAMA_FREE, DEEPSEEK_FREE}
Workers == 1..worker_count
Modes == {"fast_reply", "web", "deepseek_r1", "deep_search", "deep_research"}
DeepModes == {"deep_search", "deep_research"}
NoMode == "none"

\* lengths of the fragments a user may send (voice transcripts are unbounded)
FragLens == {1, 11998}
SP == 0                     \* the separator " " inside a joined query

\* ------------------------------------------------------------ pure helpers
Max2(a, b) == IF a >= b THEN a ELSE b
Min2(a, b) == IF a <= b THEN a ELSE b

RECURSIVE SumLen(_)
SumLen(buf) == IF buf = <<>> THEN 0 ELSE Head(buf).len + SumLen(Tail(buf))

\* " ".join(buffered_messages): the fragments with one separator between
\* each two neighbours
RECURSIVE Join(_)
Join(buf) ==
    IF buf = <<>> THEN <<>>
    ELSE IF Len(buf) = 1 THEN <<Head(buf).id>>
    ELSE <<Head(buf).id, SP>> \o Join(Tail(buf))

\* len(full_query_text)
JoinLen(buf) == IF buf = <<>> THEN 0 ELSE SumLen(buf) + (Len(buf) - 1)

\* priorities.get(mode, 3)
PriorityWebLast(mode) ==
    CASE mode = "fast_reply" -> 1
      [] mode = "web" -> 5
      [] mode = "deepseek_r1" -> 3
      [] mode = "deep_search" -> 4
      [] mode = "deep_research" -> 2
      [] OTHER -> 3

Priority(mode) ==
    CASE mode = "fast_reply" -> 1
      [] mode = "web" -> 2
      [] mode = "deepseek_r1" -> 3
      [] mode = "deep_search" -> 4
      [] mode = "deep_research" -> 5
      [] OTHER -> 3

\* --------------------------------------------------- heapq on (prio, Request)
\* item < other for two queue entries: the tuples are compared element by
\* element; with equal priorities the comparison falls through to the Request
\* namedtuples and from there to their Update objects, which are never equal
\* (every flush carries its own latest update) and define no ordering:
\* TypeError.
Lt(a, b) ==
    IF a.prio # b.prio THEN (IF a.prio < b.prio THEN "lt" ELSE "ge")
    ELSE "err"

Swap(h, i, j) == [h EXCEPT ![i] = h[j], ![j] = h[i]]

\* heapq._siftdown(heap, startpos, pos), positions counted from 1
RECURSIVE SiftDown(_, _, _)
SiftDown(h, start, pos) ==
    IF pos <= start THEN [heap |-> h, err |-> FALSE]
    ELSE LET par == pos \div 2
             c == Lt(h[pos], h[par])
         IN IF c = "err" THEN [heap |-> h, err |-> TRUE]
            ELSE IF c = "ge" THEN [heap |-> h, err |-> FALSE]
            ELSE SiftDown(Swap(h, pos, par), start, par)

\* heapq._siftup(heap, pos): move the smaller child up until a leaf is
\* reached, then sift the displaced item down from there
RECURSIVE SiftUpFrom(_, _, _)
SiftUpFrom(h, start, pos) ==
    IF pos > Len(h) \div 2 THEN SiftDown(h, start, pos)
    ELSE LET l == 2 * pos
             c == IF l + 1 <= Len(h) THEN Lt(h[l], h[l + 1]) ELSE "lt"
             child == IF c = "lt" THEN l ELSE l + 1
         IN IF c = "err" THEN [heap |-> h, err |-> TRUE]
            ELSE SiftUpFrom(Swap(h, pos, child), start, child)

\* heapq.heappush(heap, item): the item is appended first, then sifted
HeapPush(h, item) == SiftDown(Append(h, item), 1, Len(h) + 1)

\* heapq.heappop(heap): on a failed comparison the root has already been
\* overwritten with the last element and is not returned
HeapPop(h) ==
    LET n == Len(h)
        last == h[n]
        rest == SubSeq(h, 1, n - 1)
    IN IF n = 1 THEN [heap |-> <<>>, err |-> FALSE, item |-> <<last>>]
       ELSE LET r == SiftUpFrom([rest EXCEPT ![1] = last], 1, 1)
            IN [heap |-> r.heap, err |-> r.err,
                item |-> IF r.err THEN <<>> ELSE <<h[1]>>]

\* ------------------------------------------------------------------ state
VARIABLES
    buffers,        \* user_message_buffers: chat -> fragments not yet flushed
    lastUpdate,     \* user_last_update: chat -> latest update, 0 when absent
    trackers,       \* user_job_trackers: chat -> timer job, 0 when absent
    sched,          \* timer jobs in the job queue: [id, chat, left]
    fired,          \* timer jobs whose callback is dispatched but not yet run
    nInputs,        \* updates accepted so far (update ids are 1, 2, ...)
    mode,           \* context.chat_data['mode'] of each chat
    nModeChanges,
    heap,           \* request_queue._queue, the heap list
    getters,        \* request_queue._getters, workers blocked in get()
    unfinished,     \* request_queue._unfinished_tasks
    pc,             \* where each worker is in its loop
    req,            \* the Request a worker's locals are bound to
    has,            \* whether the worker took a Request in this iteration
    hmode,          \* the mode the worker read for the handler lookup
    typing,         \* the worker's typing_task
    exc,            \* exception on its way out of the worker's try statement
    holding,        \* workers whose handler holds a permit of llm_semaphore
    stopped,        \* main_async has left its loop and cancelled the workers
    faults,         \* failures injected so far
    since,          \* history: ticks since the chat's last input (saturating)
    short,          \* history: all gaps inside the chat's buffer were short
    lastFlush,      \* history: what the latest flush found and did
    lastPut,        \* history: the latest envelope put and how the put ended
    lastTake,       \* history: the latest envelope taken, and the queue then
    msgs,           \* history: kinds of message sent for a worker's Job
    lastEnd,        \* history: the Job a worker finished last, its messages
    warned,         \* history: the waiting_in_queue warning was sent
    readyIn,        \* _model_next_ok: backend -> time left until its next
                    \* eligible time, 0 when that is not in the future
    cpc,            \* where each caller is: idle, sleep (in _wait_if_needed),
                    \* flight (request posted, response awaited)
    primary,        \* primary of the invocation
    attempt,        \* 1: _chat_once on the primary, 2: on the secondary
    sleepLeft,      \* time left of the caller's asyncio.sleep
    nCalls,         \* invocations started so far
    reqs,           \* history: requests of the caller's current invocation
    lastDone,       \* history: the invocation that ended last: number of
                    \* requests, status of the last one, outcome
    lastIssue,      \* history: the latest request posted
    hintLeft,       \* history: time left until 30 s have passed since
                    \* LLAMA_FREE, as a primary, last answered 429 with a
                    \* 30 s reset hint
    coolLeft,       \* _rate_limit_state["until"]: time left until then, 0
                    \* when it is not in the future
    rpc,            \* where each caller of a decorated operation is: idle,
                    \* cooldown (the sleep before the loop), run (func is
                    \* awaited), backoff (the sleep after a failure)
    rattempt,       \* attempt, the loop variable of the wrapper
    rdelay,         \* _delay of the wrapper
    rsleep,         \* time left of the wrapper's asyncio.sleep
    nRetryCalls,    \* decorated operations called so far
    tries,          \* history: times func was started in the current call
    rlast,          \* history: how the latest run of func ended in this call
    lastStart,      \* history: the latest start of func
    lastRet,        \* history: the decorated call that ended last
    rop,            \* the decorated operation the caller has called
    rback,          \* history: how the backend call of the latest run
                    \* of func ended in this call
    shw,            \* where send_long_message is: idle, whole (the text is
                    \* sent unsplit), split (inside the while loop)
    stext,          \* text, after _extract_code_to_files
    smarkup,        \* kwargs holds a reply_markup
    srest,          \* rest
    schunk,         \* chunk, as repaired
    tried,          \* the reply_text calls made for the current chunk
    nSends,         \* calls of send_long_message so far
    sraw,           \* history: the current chunk as cut, before the repair
    sprefix,        \* history: the chunks cut before the current one
    sframe,         \* history: number of the current chunk
    lastSend,       \* history: how the latest delivery ended
    hpc,            \* where a worker's handler is: idle (no handler
                    \* runs), ready (about to make its next generation
                    \* call), call (a generation call is awaited)
    hprog,          \* the generation calls the handler has yet to end
    permits,        \* workers whose handler is inside an
                    \* async with llm_semaphore block
    nHandlers,      \* handlers called so far
    ptext,          \* text, the argument of _clean_text_for_plain_send
    pclean,         \* cleaned_text, what it returned
    nCleans,        \* applications of the fallback so far
    xtext,          \* text, the argument of _extract_code_to_files
    xms,            \* the matches of _CODE_BLOCK_RE at or above the
                    \* threshold that the loop has yet to pass
    xpos,           \* pos
    xout,           \* out, joined
    xdocs,          \* history: the documents sent by reply_document
    lastResp,       \* history: the latest response handled in SpecPace
    nResps,         \* responses handled so far in SpecPace
    dtext,          \* final_answer, the text a handler has generated
    dhandler        \* the handler that delivers it, "none" before

vars == <<buffers, lastUpdate, trackers, sched, fired, nInputs, mode,
          nModeChanges, heap, getters, unfinished, pc, req, has, hmode,
          typing, exc, holding, stopped, faults, since, short, lastFlush,
          lastPut, lastTake, msgs, lastEnd, warned, readyIn, cpc, primary,
          attempt, sleepLeft, nCalls, reqs, lastDone, lastIssue,
          hintLeft, coolLeft, rpc, rattempt, rdelay, rsleep, nRetryCalls,
          tries, rlast, lastStart, lastRet, rop, rback, shw, stext, smarkup, srest,
          schunk, tried, nSends, sraw, sprefix, sframe, lastSend, hpc,
          hprog, permits, nHandlers, ptext, pclean, nCleans, xtext, xms,
          xpos, xout, xdocs, lastResp, nResps, dtext, dhandler>>

debounceVars == <<buffers, lastUpdate, trackers, sched, fired, since, short,
                  lastFlush>>
queueVars == <<heap, getters, unfinished, lastPut>>
workerVars == <<pc, req, has, hmode, typing, exc, holding, msgs, lastEnd,
                lastTake, warned, stopped, faults>>

govVars == <<readyIn, cpc, primary, attempt, sleepLeft, nCalls, reqs,
             lastDone, lastIssue, hintLeft>>

retryVars == <<coolLeft, rpc, rattempt, rdelay, rsleep, nRetryCalls, tries,
               rlast, lastStart, lastRet, rop, rback>>

botVars == <<buffers, lastUpdate, trackers, sched, fired, nInputs, mode,
             nModeChanges, heap, getters, unfinished, pc, req, has, hmode,
             typing, exc, holding, stopped, faults, since, short, lastFlush,
             lastPut, lastTake, msgs, lastEnd, warned>>

\* what the scheduler, the queue and the workers leave alone, what the
\* request governor leaves alone, what the retry decorator leaves alone, what
\* send_long_message leaves alone
sendVars == <<shw, stext, smarkup, srest, schunk, tried, nSends, sraw,
              sprefix, sframe, lastSend>>
admitVars == <<hpc, hprog, permits, nHandlers>>
cleanVars == <<ptext, pclean, nCleans>>
extractVars == <<xtext, xms, xpos, xout, xdocs>>
paceVars == <<lastResp, nResps>>
deliverVars == <<dtext, dhandler>>
notBot == <<govVars, retryVars, sendVars, admitVars, cleanVars, extractVars, paceVars,
           deliverVars>>
notGov == <<botVars, retryVars, sendVars, admitVars, cleanVars, extractVars, paceVars,
           deliverVars>>
notRetry == <<botVars, govVars, sendVars, admitVars, cleanVars, extractVars, paceVars,
           deliverVars>>
notSend == <<botVars, govVars, retryVars, admitVars, cleanVars, extractVars, paceVars,
           deliverVars>>
notAdmit == <<botVars, govVars, retryVars, sendVars, cleanVars, extractVars, paceVars,
           deliverVars>>
notClean == <<botVars, govVars, retryVars, sendVars, admitVars, extractVars, paceVars,
           deliverVars>>

NoReq == [update |-> 0, chat |-> 0, query |-> <<>>]
NoFlush == [chat |-> 0, timer |-> 0, burst |-> <<>>, short |-> TRUE,
            since |-> 0, jobs |-> 0, query |-> <<>>, advisory |-> FALSE]
NoPut == [update |-> 0, prio |-> 0, raised |-> FALSE]
NoTake == [update |-> 0, prio |-> 0, rest |-> <<>>]
NoEnd == [update |-> 0, msgs |-> {}]
NoIssue == [model |-> "none", early |-> 0, hintLeft |-> 0]
NoDone == [n |-> 0, last |-> "none", outcome |-> "none"]
NoResp == [model |-> "none", status |-> "none", h |-> <<>>]
NoSend == [outcome |-> "none", frames |-> 0, result |-> "none"]
NoStart == [caller |-> 0, cool |-> 0]
NoRet == [n |-> 0, last |-> "none", outcome |-> "none", value |-> 0,
          made |-> 0, backend |-> "none"]

\* main_async has built the queue, the semaphore and the workers; each
\* worker has run up to its first queue.get() on the empty queue and waits
\* there, in the order of creation, before polling starts
Init ==
    /\ buffers = [s \in Sessions |-> <<>>]
    /\ lastUpdate = [s \in Sessions |-> 0]
    /\ trackers = [s \in Sessions |-> 0]
    /\ sched = {}
    /\ fired = {}
    /\ nInputs = 0
    /\ mode = [s \in Sessions |-> "fast_reply"]
    /\ nModeChanges = 0
    /\ heap = <<>>
    /\ getters = [i \in 1..worker_count |-> i]
    /\ unfinished = 0
    /\ pc = [w \in Workers |-> "wait"]
    /\ req = [w \in Workers |-> NoReq]
    /\ has = [w \in Workers |-> FALSE]
    /\ hmode = [w \in Workers |-> NoMode]
    /\ typing = [w \in Workers |-> "none"]
    /\ exc = [w \in Workers |-> "none"]
    /\ holding = {}
    /\ stopped = FALSE
    /\ faults = 0
    /\ since = [s \in Sessions |-> DebounceTicks]
    /\ short = [s \in Sessions |-> TRUE]
    /\ lastFlush = NoFlush
    /\ lastPut = NoPut
    /\ lastTake = NoTake
    /\ msgs = [w \in Workers |-> {}]
    /\ lastEnd = NoEnd
    /\ warned = FALSE
    /\ readyIn = [m \in Models |-> 0]
    /\ cpc = [c \in Callers |-> "idle"]
    /\ primary = [c \in Callers |-> LLAMA_FREE]
    /\ attempt = [c \in Callers |-> 1]
    /\ sleepLeft = [c \in Callers |-> 0]
    /\ nCalls = 0
    /\ reqs = [c \in Callers |-> <<>>]
    /\ lastDone = NoDone
    /\ lastIssue = NoIssue
    /\ hintLeft = 0
    /\ coolLeft = 0
    /\ rpc = [c \in Callers |-> "idle"]
    /\ rattempt = [c \in Callers |-> 0]
    /\ rdelay = [c \in Callers |-> retry_delay]
    /\ rsleep = [c \in Callers |-> 0]
    /\ nRetryCalls = 0
    /\ tries = [c \in Callers |-> 0]
    /\ rlast = [c \in Callers |-> "none"]
    /\ lastStart = NoStart
    /\ lastRet = NoRet
    /\ rop = [c \in Callers |-> "none"]
    /\ rback = [c \in Callers |-> "none"]
    /\ shw = "idle"
    /\ stext = <<>>
    /\ smarkup = FALSE
    /\ srest = <<>>
    /\ schunk = <<>>
    /\ tried = <<>>
    /\ nSends = 0
    /\ sraw = <<>>
    /\ sprefix = <<>>
    /\ sframe = 0
    /\ lastSend = NoSend
    /\ hpc = [w \in Workers |-> "idle"]
    /\ hprog = [w \in Workers |-> <<>>]
    /\ permits = {}
    /\ nHandlers = 0
    /\ ptext = <<>>
    /\ pclean = <<>>
    /\ nCleans = 0
    /\ xtext = <<>>
    /\ xms = <<>>
    /\ xpos = 0
    /\ xout = <<>>
    /\ xdocs = <<>>
    /\ lastResp = NoResp
    /\ nResps = 0
    /\ dtext = <<>>
    /\ dhandler = "none"

\* ------------------------------------------------------- the dispatch queue
\* asyncio.Queue._wakeup_next(self._getters): the first blocked getter
\* is released and goes back to its emptiness test
WakeFirst(p, g) ==
    IF g = <<>> THEN p ELSE [p EXCEPT ![Head(g)] = "get"]

\* await request_queue.put((priority, request)) on the unbounded
\* PriorityQueue, i.e. put_nowait: _put is heappush; when it raises, the item
\* is already in the list, the counter is not updated and nobody is woken
QueuePut(item) ==
    LET r == HeapPush(heap, item)
    IN /\ heap' = r.heap
       /\ lastPut' = [update |-> item.update, prio |-> item.prio,
                      raised |-> r.err]
       /\ IF r.err
          THEN UNCHANGED <<getters, unfinished, pc>>
          ELSE /\ unfinished' = unfinished + 1
               /\ pc' = WakeFirst(pc, getters)
               /\ getters' = IF getters = <<>> THEN <<>> ELSE Tail(getters)

\* process_buffered_messages from the priority lookup on: the Request is
\* built from the latest update and the joined text, the priority comes from
\* the chat's mode at this moment
Enqueue(s, last_update, full_query_text) ==
    QueuePut([prio |-> Priority(mode[s]), update |-> last_update,
              chat |-> s, query |-> full_query_text])

\* ------------------------------------------------------ debounce scheduler
\* Job.schedule_removal(): the job leaves the job queue if it is still there
ScheduleRemoval(jobs, id) == {t \in jobs : t.id # id}

\* job_queue.run_once(process_buffered_messages, when=0.8, chat_id=chat_id)
RunOnce(jobs, id, chat) ==
    jobs \cup {[id |-> id, chat |-> chat, left |-> DebounceTicks]}

\* handle_message / handle_voice_message from the buffer append on (no await
\* in between): append, remember the update, cancel the tracked timer if the
\* chat has one, schedule a new timer and track it. When the tracked job has
\* already left the job store (its callback is dispatched but has not run),
\* Job.schedule_removal() either does nothing or raises JobLookupError,
\* depending on the installed library; the exception ends the handler
OnInput(s, len) ==
    /\ ~stopped
    /\ nInputs < MaxInputs
    /\ LET u == nInputs + 1
           gone == trackers[s] # 0 /\ ~(\E t \in sched : t.id = trackers[s])
       IN /\ nInputs' = u
          /\ buffers' = [buffers EXCEPT ![s] = Append(@, [id |-> u, len |-> len])]
          /\ lastUpdate' = [lastUpdate EXCEPT ![s] = u]
          /\ \E raises \in (IF gone THEN BOOLEAN ELSE {FALSE}) :
                IF raises
                THEN UNCHANGED <<sched, trackers>>
                ELSE /\ sched' = RunOnce(IF trackers[s] # 0
                                         THEN ScheduleRemoval(sched, trackers[s])
                                         ELSE sched, u, s)
                     /\ trackers' = [trackers EXCEPT ![s] = u]
          /\ short' = [short EXCEPT ![s] =
                          IF buffers[s] = <<>> THEN TRUE
                          ELSE @ /\ since[s] < DebounceTicks]
          /\ since' = [since EXCEPT ![s] = 0]
    /\ UNCHANGED <<fired, lastFlush, mode, nModeChanges>>
    /\ UNCHANGED queueVars
    /\ UNCHANGED workerVars
    /\ UNCHANGED notBot

handle_message(s) == \E len \in FragLens : OnInput(s, len)

\* the voice handler transcribes first; an empty transcript adds nothing
handle_voice_message(s) == \E len \in FragLens : OnInput(s, len)

\* 0.4 s pass: every scheduled timer comes closer to its run time. The
\* event loop is not held up that long: a due timer is dispatched and a
\* dispatched callback has run before the next 0.4 s are over
Tick ==
    /\ ~stopped
    /\ fired = {}
    /\ \A t \in sched : t.left > 0
    /\ \/ \E t \in sched : t.left > 0
       \/ \E s \in Sessions : since[s] < DebounceTicks
    /\ sched' = {[t EXCEPT !.left = Max2(0, @ - 1)] : t \in sched}
    /\ since' = [s \in Sessions |-> Min2(DebounceTicks, since[s] + 1)]
    /\ UNCHANGED <<buffers, lastUpdate, trackers, fired, nInputs, short,
                   lastFlush, mode, nModeChanges>>
    /\ UNCHANGED queueVars
    /\ UNCHANGED workerVars
    /\ UNCHANGED notBot

\* the job queue finds a timer due: the job leaves the job store and its
\* callback is handed to the event loop, where it runs at a later turn
Dispatch ==
    /\ ~stopped
    /\ \E t \in sched :
        /\ t.left = 0
        /\ sched' = sched \ {t}
        /\ fired' = fired \cup {[id |-> t.id, chat |-> t.chat]}
    /\ UNCHANGED <<buffers, lastUpdate, trackers, nInputs, since, short,
                   lastFlush, mode, nModeChanges>>
    /\ UNCHANGED queueVars
    /\ UNCHANGED workerVars
    /\ UNCHANGED notBot

\* if not buffered_messages or not last_update, with the mutation that
\* never takes the early return
NoDataNever(buffered_messages, last_update) == FALSE

\* if not buffered_messages or not last_update
NoData(buffered_messages, last_update) ==
    buffered_messages = <<>> \/ last_update = 0

\* if len(full_query_text) > MAX_MESSAGE_LENGTH, with >= for >
TooLongFromMax(n) == n >= MAX_MESSAGE_LENGTH

\* if len(full_query_text) > MAX_MESSAGE_LENGTH
TooLong(n) == n > MAX_MESSAGE_LENGTH

\* process_buffered_messages(context) for the timer job f
Flush(f) ==
    LET s == f.chat
        buffered_messages == buffers[s]
        last_update == lastUpdate[s]
        full_query_text == Join(buffered_messages)
        base == [chat |-> s, timer |-> f.id, burst |-> buffered_messages,
                 short |-> short[s], since |-> since[s], jobs |-> 0,
                 query |-> <<>>, advisory |-> FALSE]
    IN
    /\ buffers' = [buffers EXCEPT ![s] = <<>>]
    /\ lastUpdate' = [lastUpdate EXCEPT ![s] = 0]
    /\ trackers' = [trackers EXCEPT ![s] = 0]
    /\ short' = [short EXCEPT ![s] = TRUE]
    /\ IF NoData(buffered_messages, last_update)
       THEN /\ lastFlush' = base
            /\ UNCHANGED <<heap, getters, unfinished, lastPut, pc>>
       ELSE IF TooLong(JoinLen(buffered_messages))
       THEN /\ lastFlush' = [base EXCEPT !.advisory = TRUE]
            /\ UNCHANGED <<heap, getters, unfinished, lastPut, pc>>
       ELSE /\ lastFlush' = [base EXCEPT !.jobs = 1, !.query = full_query_text]
            /\ Enqueue(s, last_update, full_query_text)

process_buffered_messages ==
    /\ ~stopped
    /\ \E f \in fired :
        /\ fired' = fired \ {f}
        /\ Flush(f)
    /\ UNCHANGED <<sched, nInputs, since, mode, nModeChanges, stopped, faults,
                   req, has, hmode, typing, exc, holding, msgs, lastEnd,
                   lastTake, warned>>
    /\ UNCHANGED notBot

\* button(): a mode button of the chat's menu is pressed
button(s) ==
    /\ ~stopped
    /\ nModeChanges < MaxModeChanges
    /\ \E m \in Modes \ {mode[s]} : mode' = [mode EXCEPT ![s] = m]
    /\ nModeChanges' = nModeChanges + 1
    /\ UNCHANGED nInputs
    /\ UNCHANGED debounceVars
    /\ UNCHANGED queueVars
    /\ UNCHANGED workerVars
    /\ UNCHANGED notBot

Next ==
    \/ \E s \in Sessions : handle_message(s)
    \/ \E s \in Sessions : handle_voice_message(s)
    \/ Tick
    \/ Dispatch
    \/ process_buffered_messages
    \/ \E s \in Sessions : button(s)

Spec == Init /\ [][Next]_vars

\* ------------------------------------------------------------ worker pool
\* llm_semaphore.locked(): no permit is left
Locked == Cardinality(holding) >= SemaphoreLimit

\* a flush of one buffered fragment, the path of process_buffered_messages
\* that ends in request_queue.put; updates are numbered in the order of
\* their submission
Submit(s) ==
    /\ ~stopped
    /\ nInputs < MaxJobs
    /\ nInputs' = nInputs + 1
    /\ Enqueue(s, nInputs + 1, <<nInputs + 1>>)
    /\ UNCHANGED <<mode, nModeChanges, req, has, hmode, typing, exc, holding,
                   msgs, lastEnd, lastTake, warned, stopped, faults>>
    /\ UNCHANGED debounceVars
    /\ UNCHANGED notBot

Others == <<buffers, lastUpdate, trackers, sched, fired, nInputs, since,
            short, lastFlush, nModeChanges, lastPut, stopped, notBot>>

\* worker(): priority, request = await queue.get()  and, when a Request was
\* taken, the statements up to the handler call (saturation warning, mode
\* lookup, start of the typing task)
WorkerGet(w) ==
    /\ ~stopped
    /\ pc[w] = "get"
    /\ IF heap = <<>>
       THEN \* block on a new getter future
            /\ getters' = Append(getters, w)
            /\ pc' = [pc EXCEPT ![w] = "wait"]
            /\ UNCHANGED <<heap, req, has, hmode, typing, exc, msgs, lastTake,
                           warned, faults>>
       ELSE LET r == HeapPop(heap)
            IN /\ heap' = r.heap
               /\ UNCHANGED getters
               /\ IF r.err
                  THEN \* TypeError out of heappop, caught by except Exception
                       /\ pc' = [pc EXCEPT ![w] = "except"]
                       /\ has' = [has EXCEPT ![w] = FALSE]
                       /\ UNCHANGED <<req, hmode, typing, exc, msgs, lastTake,
                                      warned, faults>>
                  ELSE LET it == r.item[1]
                       IN /\ req' = [req EXCEPT ![w] =
                                 [update |-> it.update, chat |-> it.chat,
                                  query |-> it.query]]
                          /\ has' = [has EXCEPT ![w] = TRUE]
                          /\ lastTake' = [update |-> it.update,
                                          prio |-> it.prio, rest |-> r.heap]
                          /\ msgs' = [msgs EXCEPT ![w] = {}]
                          /\ exc' = [exc EXCEPT ![w] = "none"]
                          /\ IF Locked
                             THEN \E ok \in BOOLEAN :
                                    /\ ok \/ faults < MaxFaults
                                    /\ faults' = IF ok THEN faults ELSE faults + 1
                                    /\ warned' = (warned \/ ok)
                                    /\ pc' = [pc EXCEPT ![w] =
                                          IF ok THEN "handler" ELSE "except"]
                                    /\ hmode' = [hmode EXCEPT ![w] =
                                          IF ok THEN mode[it.chat] ELSE NoMode]
                                    /\ typing' = [typing EXCEPT ![w] =
                                          IF ok THEN "running" ELSE "none"]
                             ELSE /\ pc' = [pc EXCEPT ![w] = "handler"]
                                  /\ hmode' = [hmode EXCEPT ![w] = mode[it.chat]]
                                  /\ typing' = [typing EXCEPT ![w] = "running"]
                                  /\ UNCHANGED <<warned, faults>>
    /\ UNCHANGED <<unfinished, holding, lastEnd, mode>>
    /\ UNCHANGED Others

\* the handler up to its generation call: the deep modes announce the start
\* and put the chat back into fast_reply, every handler sends a chat action
\* (a failure so far is not caught by the handler), then the handler enters
\* async with llm_semaphore, where it waits while no permit is left
HandlerStart(w) ==
    /\ ~stopped
    /\ pc[w] = "handler"
    /\ LET deep == hmode[w] \in DeepModes
           c == req[w].chat
       IN \E out \in {"ok", "raise_before", "raise_after"} :
            /\ out = "raise_after" => deep
            /\ out = "ok" => ~Locked
            /\ out # "ok" => faults < MaxFaults
            /\ faults' = IF out = "ok" THEN faults ELSE faults + 1
            /\ pc' = [pc EXCEPT ![w] = IF out = "ok" THEN "llm" ELSE "except"]
            /\ holding' = IF out = "ok" THEN holding \cup {w} ELSE holding
            /\ IF deep /\ out # "raise_before"
               THEN /\ mode' = [mode EXCEPT ![c] = "fast_reply"]
                    /\ msgs' = [msgs EXCEPT ![w] = @ \cup {"start"}]
               ELSE UNCHANGED <<mode, msgs>>
    /\ UNCHANGED <<heap, getters, unfinished, req, has, hmode, typing, exc,
                   lastEnd, lastTake, warned>>
    /\ UNCHANGED Others

\* the rest of the handler: the permit is given back, then either the answer
\* goes out through send_long_message and the mode menu follows, or the
\* handler's own except clause reports error_generic and shows the menu; each
\* of the sends may raise, and then the exception leaves the handler
HandlerFinish(w) ==
    /\ ~stopped
    /\ pc[w] = "llm"
    /\ holding' = holding \ {w}
    /\ LET deep == hmode[w] \in DeepModes
           c == req[w].chat
       IN \E out \in {"answer", "answer_menu_raises", "failure",
                      "failure_menu_raises", "report_raises"} :
            /\ out # "answer" => faults < MaxFaults
            /\ faults' = IF out = "answer" THEN faults ELSE faults + 1
            /\ msgs' = [msgs EXCEPT ![w] =
                  @ \cup (CASE out \in {"answer", "answer_menu_raises"} -> {"answer"}
                            [] out \in {"failure", "failure_menu_raises"} -> {"failure"}
                            [] OTHER -> {})]
            /\ mode' = IF deep /\ out \in {"answer", "answer_menu_raises"}
                       THEN [mode EXCEPT ![c] = "fast_reply"] ELSE mode
            /\ pc' = [pc EXCEPT ![w] =
                  IF out \in {"answer", "failure"} THEN "finally" ELSE "except"]
    /\ UNCHANGED <<heap, getters, unfinished, req, has, hmode, typing, exc,
                   lastEnd, lastTake, warned>>
    /\ UNCHANGED Others

\* send_typing_periodically: send_chat_action raises something other than a
\* network error, which ends the task with that exception
TypingFail(w) ==
    /\ ~stopped
    /\ typing[w] = "running"
    /\ faults < MaxFaults
    /\ faults' = faults + 1
    /\ typing' = [typing EXCEPT ![w] = "failed"]
    /\ UNCHANGED <<heap, getters, unfinished, pc, req, has, hmode, exc,
                   holding, msgs, lastEnd, lastTake, warned, mode>>
    /\ UNCHANGED Others

\* the worker's except clauses: read context.chat_data and reply to
\* update.message; both names are whatever the locals hold, and are unbound
\* when the worker has never taken a Request. The exception is handled when
\* the reply went out, otherwise the reply's exception replaces it
WorkerExcept(w) ==
    /\ ~stopped
    /\ pc[w] = "except"
    /\ pc' = [pc EXCEPT ![w] = "finally"]
    /\ IF req[w] = NoReq
       THEN /\ exc' = [exc EXCEPT ![w] = "other"]
            /\ UNCHANGED <<msgs, faults>>
       ELSE \E out \in {"sent", "net", "other"} :
              /\ out # "sent" => faults < MaxFaults
              /\ faults' = IF out = "sent" THEN faults ELSE faults + 1
              /\ exc' = [exc EXCEPT ![w] = IF out = "sent" THEN "handled" ELSE out]
              /\ msgs' = [msgs EXCEPT ![w] =
                    IF out = "sent" /\ has[w] THEN @ \cup {"failure"} ELSE @]
    /\ UNCHANGED <<heap, getters, unfinished, req, has, hmode, typing,
                   holding, lastEnd, lastTake, warned, mode>>
    /\ UNCHANGED Others

\* the typing task stops only where the handler call returned
StopTypingAfterHandler(w) ==
    IF exc[w] = "none" THEN [typing EXCEPT ![w] = "none"] ELSE typing

\* finally: if typing_task: typing_task.cancel(), await typing_task
StopTyping(w) == [typing EXCEPT ![w] = "none"]

\* the finally clause: cancel and await the typing task, then
\* queue.task_done(); afterwards the loop continues unless an exception is
\* on its way out
WorkerFinally(w) ==
    /\ ~stopped
    /\ pc[w] = "finally"
    /\ typing' = StopTyping(w)
    /\ lastEnd' = IF has[w]
                  THEN [update |-> req[w].update, msgs |-> msgs[w]]
                  ELSE lastEnd
    /\ has' = [has EXCEPT ![w] = FALSE]
    /\ IF typing[w] = "failed"
       THEN \* await typing_task re-raises the task's exception
            /\ pc' = [pc EXCEPT ![w] = "dead"]
            /\ exc' = [exc EXCEPT ![w] = "other"]
            /\ UNCHANGED unfinished
       ELSE IF unfinished <= 0
       THEN \* ValueError('task_done() called too many times')
            /\ pc' = [pc EXCEPT ![w] = "dead"]
            /\ exc' = [exc EXCEPT ![w] = "other"]
            /\ UNCHANGED unfinished
       ELSE /\ unfinished' = unfinished - 1
            /\ pc' = [pc EXCEPT ![w] =
                  IF exc[w] \in {"none", "handled"} THEN "get" ELSE "dead"]
            /\ UNCHANGED exc
    /\ UNCHANGED <<heap, getters, req, hmode, holding, msgs, lastTake, warned,
                   mode, faults>>
    /\ UNCHANGED Others

\* main_async: asyncio.gather(*workers) raises the exception of a finished
\* worker; a network error sends the loop round again, anything else breaks
\* out of it, and the finally clause cancels every worker
MainGatherRaises ==
    /\ ~stopped
    /\ \E w \in Workers : pc[w] = "dead" /\ exc[w] = "other"
    /\ stopped' = TRUE
    /\ pc' = [w \in Workers |-> "dead"]
    /\ typing' = [w \in Workers |-> "none"]
    /\ holding' = {}
    /\ UNCHANGED <<buffers, lastUpdate, trackers, sched, fired, nInputs, since,
                   short, lastFlush, nModeChanges, lastPut, mode, faults,
                   heap, getters, unfinished, req, has, hmode, exc, msgs,
                   lastEnd, lastTake, warned>>
    /\ UNCHANGED notBot

NextPool ==
    \/ \E s \in Sessions : Submit(s)
    \/ \E s \in Sessions : button(s)
    \/ \E w \in Workers : WorkerGet(w)
    \/ \E w \in Workers : HandlerStart(w)
    \/ \E w \in Workers : HandlerFinish(w)
    \/ \E w \in Workers : TypingFail(w)
    \/ \E w \in Workers : WorkerExcept(w)
    \/ \E w \in Workers : WorkerFinally(w)
    \/ MainGatherRaises

SpecPool == Init /\ [][NextPool]_vars

\* the modes of the envelopes put in SpecQ: four of the five priorities
QModes == Modes \ {"deep_research"}

\* ------------------------------------------------- the dispatch queue alone
\* request_queue.put((priority, request)) for a Request flushed in mode m;
\* updates are numbered in the order of their submission
QPut ==
    /\ nInputs < MaxQ
    /\ nInputs' = nInputs + 1
    /\ \E m \in QModes :
         QueuePut([prio |-> Priority(m), update |-> nInputs + 1, chat |-> 1,
                   query |-> <<nInputs + 1>>])
    /\ UNCHANGED <<mode, nModeChanges, req, has, hmode, typing, exc, holding,
                   msgs, lastEnd, lastTake, warned, stopped, faults>>
    /\ UNCHANGED debounceVars
    /\ UNCHANGED notBot

\* request_queue.get() on the non-empty queue, i.e. get_nowait: heappop
QGet ==
    /\ heap # <<>>
    /\ LET r == HeapPop(heap)
       IN /\ heap' = r.heap
          /\ lastTake' = IF r.err THEN lastTake
                         ELSE [update |-> r.item[1].update,
                               prio |-> r.item[1].prio, rest |-> r.heap]
    /\ UNCHANGED <<nInputs, mode, nModeChanges, getters, unfinished, lastPut,
                   pc, req, has, hmode, typing, exc, holding, msgs, lastEnd,
                   warned, stopped, faults>>
    /\ UNCHANGED debounceVars
    /\ UNCHANGED notBot

NextQ == QPut \/ QGet

SpecQ == Init /\ [][NextQ]_vars

\* ------------------------------------------------- outbound call governor
\* _other_free(model_str) on the configured model names
_other_free(model_str) ==
    IF model_str = LLAMA_FREE THEN DEEPSEEK_FREE
    ELSE IF model_str = DEEPSEEK_FREE THEN LLAMA_FREE
    ELSE DEEPSEEK_FREE

\* rate headers of a response as sent: each may be absent; the rate limit is
\* written in requests per 20 s, times in ticks of 0.5 s
Absent == -1
NoHeaders ==
    [limit |-> Absent, remaining |-> Absent, reset |-> Absent, retry |-> Absent]
Headers ==
    {NoHeaders,
     [NoHeaders EXCEPT !.limit = 20, !.remaining = 0, !.reset = HintTicks],
     [NoHeaders EXCEPT !.limit = 20, !.remaining = 1, !.reset = HintTicks]}

\* _parse_rate_headers(h): absent headers take their defaults
_parse_rate_headers(h) ==
    [limit_rps |-> IF h.limit = Absent THEN DefaultLimit ELSE h.limit,
     remaining |-> IF h.remaining = Absent THEN 0 ELSE h.remaining,
     reset_s |-> h.reset,
     retry_after |-> h.retry]

\* math.ceil of a time in seconds, held in half seconds
CeilSeconds(t) == 2 * ((t + 1) \div 2)

\* 1.0 / limit_rps, in half seconds
Period(limit_rps) == 40 \div limit_rps

\* _choose_model_prefer_llama() taking DEEPSEEK_FREE when the waits are equal
ChoosePreferDeepseek ==
    LET llama_ready_in == Max2(0, readyIn[LLAMA_FREE])
        deep_ready_in == Max2(0, readyIn[DEEPSEEK_FREE])
    IN IF llama_ready_in < deep_ready_in THEN LLAMA_FREE
       ELSE DEEPSEEK_FREE

\* _choose_model_prefer_llama()
_choose_model_prefer_llama ==
    LET llama_ready_in == Max2(0, readyIn[LLAMA_FREE])
        deep_ready_in == Max2(0, readyIn[DEEPSEEK_FREE])
    IN IF llama_ready_in = 0 /\ deep_ready_in = 0 THEN LLAMA_FREE
       ELSE IF llama_ready_in <= deep_ready_in THEN LLAMA_FREE
       ELSE DEEPSEEK_FREE

\* _respect_headers writing now + delay over the time it finds
RespectOverwrites(nok, model, headers, pace_after_success) ==
    LET meta == _parse_rate_headers(headers)
        limit_rps == meta.limit_rps
        base == IF meta.reset_s # Absent THEN meta.reset_s
                ELSE IF limit_rps > 0 THEN Period(limit_rps)
                ELSE FallbackBase
        delay == IF meta.remaining <= 0
                 THEN Max2(CeilSeconds(base) + 1,
                           IF meta.retry_after = Absent THEN 0
                           ELSE meta.retry_after)
                 ELSE IF pace_after_success /\ limit_rps > 0
                 THEN Period(limit_rps)
                 ELSE 0
    IN IF delay > 0
       THEN [nok EXCEPT ![model] = delay]
       ELSE nok

\* _respect_headers(model, headers, pace_after_success) applied to the table
\* nok of times left: _model_next_ok[model] = max(next_ok, now + delay)
_respect_headers(nok, model, headers, pace_after_success) ==
    LET meta == _parse_rate_headers(headers)
        limit_rps == meta.limit_rps
        base == IF meta.reset_s # Absent THEN meta.reset_s
                ELSE IF limit_rps > 0 THEN Period(limit_rps)
                ELSE FallbackBase
        delay == IF meta.remaining <= 0
                 THEN Max2(CeilSeconds(base) + 1,
                           IF meta.retry_after = Absent THEN 0
                           ELSE meta.retry_after)
                 ELSE IF pace_after_success /\ limit_rps > 0
                 THEN Period(limit_rps)
                 ELSE 0
    IN IF delay > 0
       THEN [nok EXCEPT ![model] = Max2(@, delay)]
       ELSE nok

\* every failed request is answered with a request to the secondary
FailsOverOnAnyError(status) == status # "200"

\* the except clause of chat_with_fallback: the failures of the primary that
\* are answered with a request to the secondary
FailsOver(status) == status \in {"429", "503", "conn"}

\* the request of caller c to backend m goes out
Post(rq, c, m) ==
    [rq EXCEPT ![c] = Append(@, [model |-> m, status |-> "pending"])]

\* what is remembered of a request posted now: how long before the backend's
\* next eligible time it goes out, and how long before 30 s have passed since
\* the backend's latest 429 with a 30 s reset hint
Issued(m, nok, hint) ==
    [model |-> m, early |-> nok[m],
     hintLeft |-> IF m = LLAMA_FREE THEN hint ELSE 0]

\* _chat_once(model=m) of caller c up to its first suspension, with nok the
\* table of times left: _wait_if_needed reads the backend's time once and
\* sleeps until then, otherwise the request is posted at once
ChatOnceStart(c, m, nok, rq, hint) ==
    IF nok[m] > 0
    THEN /\ cpc' = [cpc EXCEPT ![c] = "sleep"]
         /\ sleepLeft' = [sleepLeft EXCEPT ![c] = nok[m]]
         /\ reqs' = rq
         /\ UNCHANGED lastIssue
    ELSE /\ cpc' = [cpc EXCEPT ![c] = "flight"]
         /\ reqs' = Post(rq, c, m)
         /\ lastIssue' = Issued(m, nok, hint)
         /\ UNCHANGED sleepLeft

\* chat_with_fallback(model=model, messages=...) is called; model is None
\* when the caller names no backend
chat_with_fallback(c) ==
    /\ cpc[c] = "idle"
    /\ nCalls < MaxCalls
    /\ nCalls' = nCalls + 1
    /\ \E model \in Models \cup {"None"} :
         LET p == IF model = "None" THEN _choose_model_prefer_llama
                  ELSE model
         IN /\ primary' = [primary EXCEPT ![c] = p]
            /\ ChatOnceStart(c, p, readyIn, reqs, hintLeft)
    /\ attempt' = [attempt EXCEPT ![c] = 1]
    /\ UNCHANGED <<readyIn, hintLeft, lastDone>>
    /\ UNCHANGED notGov

\* the backend the caller's running _chat_once talks to
Target(c) == IF attempt[c] = 1 THEN primary[c] ELSE _other_free(primary[c])

\* asyncio.sleep(t - now) of _wait_if_needed is over: _chat_once goes on and
\* posts the request
WaitOver(c) ==
    /\ cpc[c] = "sleep"
    /\ sleepLeft[c] = 0
    /\ cpc' = [cpc EXCEPT ![c] = "flight"]
    /\ reqs' = Post(reqs, c, Target(c))
    /\ lastIssue' = Issued(Target(c), readyIn, hintLeft)
    /\ UNCHANGED <<readyIn, primary, attempt, sleepLeft, nCalls, lastDone,
                   hintLeft>>
    /\ UNCHANGED notGov

\* chat_with_fallback returns or raises: its locals are gone
Leave(c, rq, how) ==
    /\ cpc' = [cpc EXCEPT ![c] = "idle"]
    /\ lastDone' = [n |-> Len(rq[c]), last |-> rq[c][Len(rq[c])].status,
                    outcome |-> how]
    /\ reqs' = [rq EXCEPT ![c] = <<>>]
    /\ primary' = [primary EXCEPT ![c] = LLAMA_FREE]
    /\ attempt' = [attempt EXCEPT ![c] = 1]
    /\ UNCHANGED <<sleepLeft, lastIssue>>

\* how a post may end: with a response of some status, with one of the
\* transport errors chat_with_fallback catches (ReadTimeout, ConnectTimeout,
\* ConnectError, RemoteProtocolError: "conn"), or with another transport
\* error (WriteTimeout, PoolTimeout, ...: "write")
Statuses == {"200", "429", "503", "500", "conn", "write"}
NoResponse == {"conn", "write"}

\* the post of caller c ends: the rest of _chat_once and the except clause
\* of chat_with_fallback up to the next suspension
Respond(c) ==
    /\ cpc[c] = "flight"
    /\ \E status \in Statuses, h \in Headers :
         LET m == Target(c)
             n == Len(reqs[c])
             nok1 == IF status \in NoResponse THEN readyIn
                     ELSE _respect_headers(readyIn, m, h, status = "200")
             nok2 == IF status \in {"429", "503"}
                     THEN _respect_headers(nok1, m, h, FALSE)
                     ELSE nok1
             nok3 == [nok2 EXCEPT ![m] = Max2(@, ShortHold)]
             fails_over == attempt[c] = 1 /\ FailsOver(status)
             table == IF status # "200" /\ fails_over THEN nok3 ELSE nok2
             answered == [reqs EXCEPT ![c][n].status = status]
         IN /\ status \in NoResponse => h = NoHeaders
            /\ hintLeft' = IF status = "429" /\ h.reset = HintTicks
                              /\ m = LLAMA_FREE /\ attempt[c] = 1
                           THEN HintTicks ELSE hintLeft
            /\ readyIn' = table
            /\ IF status = "200"
               THEN Leave(c, answered, "returned")
               ELSE IF fails_over
               THEN /\ attempt' = [attempt EXCEPT ![c] = 2]
                    /\ ChatOnceStart(c, _other_free(primary[c]), table,
                                     answered, hintLeft')
                    /\ UNCHANGED <<primary, lastDone>>
               ELSE Leave(c, answered, "raised")
    /\ UNCHANGED nCalls
    /\ UNCHANGED notGov

\* d half seconds pass
Elapse(d) ==
    /\ readyIn' = [m \in Models |-> Max2(0, readyIn[m] - d)]
    /\ sleepLeft' = [c \in Callers |-> Max2(0, sleepLeft[c] - d)]
    /\ hintLeft' = Max2(0, hintLeft - d)
    /\ UNCHANGED <<cpc, primary, attempt, nCalls, reqs, lastDone, lastIssue>>
    /\ UNCHANGED notGov

\* time passes until the earliest sleep ends or, when nobody sleeps, until
\* every backend is eligible again; requests in flight stay in flight
TimePasses ==
    \E d \in {readyIn[m] : m \in Models} \cup {sleepLeft[c] : c \in Callers} :
      /\ d > 0
      /\ \A c \in Callers : cpc[c] = "sleep" => sleepLeft[c] >= d
      /\ \/ \E c \in Callers : cpc[c] = "sleep" /\ sleepLeft[c] = d
         \/ /\ \A c \in Callers : cpc[c] # "sleep"
            /\ \A m \in Models : readyIn[m] <= d
      /\ Elapse(d)

NextGov ==
    \/ \E c \in Callers : chat_with_fallback(c)
    \/ \E c \in Callers : WaitOver(c)
    \/ \E c \in Callers : Respond(c)
    \/ TimePasses

SpecGov == Init /\ [][NextGov]_vars

\* ------------------------------------------- the times after a response
\* the rate headers a response may carry: each present or absent
PaceHeaders ==
    [limit : {Absent, 20}, remaining : {Absent, 0, 1},
     reset : {Absent, 3, HintTicks}, retry : {Absent, 10, 2 * HintTicks}]

\* _chat_once(model=m) from the response on: _respect_headers with pacing
\* after a 200, and once more without pacing after a 429 or a 503
ChatOnceResponse ==
    /\ nResps < MaxResps
    /\ nResps' = nResps + 1
    /\ \E m \in Models, status \in Statuses \ NoResponse, h \in PaceHeaders :
         LET nok1 == _respect_headers(readyIn, m, h, status = "200")
             nok2 == IF status \in {"429", "503"}
                     THEN _respect_headers(nok1, m, h, FALSE)
                     ELSE nok1
         IN /\ readyIn' = nok2
            /\ lastResp' = [model |-> m, status |-> status, h |-> h]
    /\ UNCHANGED <<cpc, primary, attempt, sleepLeft, nCalls, reqs, lastDone,
                   lastIssue, hintLeft>>
    /\ UNCHANGED <<botVars, retryVars, sendVars, admitVars, cleanVars,
                   extractVars, deliverVars>>

\* time passes until a backend is eligible again
PaceTimePasses ==
    \E m \in Models :
        /\ readyIn[m] > 0
        /\ Elapse(readyIn[m])

NextPace == ChatOnceResponse \/ PaceTimePasses

SpecPace == Init /\ [][NextPace]_vars

\* ------------------------------------------------------ retry decorator
\* how one run of the wrapped operation may end: with a result, with
\* RateLimitError ("429"), ServiceUnavailableError ("503"), another APIError
\* ("api"), ReadTimeout / ConnectTimeout / ConnectError ("timeout"), or with
\* an exception the except clause does not name ("other")
Results == {"ok", "429", "503", "api", "timeout", "other"}
Retryable == {"429", "503", "api", "timeout"}
Values == {1, 2}            \* what func may return; 0 stands for None

\* the operations under @retry_on_server_error() by the shape of their
\* body: get_sub_queries stands for the eight that log and re-raise what
\* their backend call raised, the other two return an error text instead
DecoratedOps ==
    {"get_sub_queries", "polish_research_answer",
     "summarize_research_chunk"}
ReturnsOnError == {"polish_research_answer", "summarize_research_chunk"}

\* how a run of the operation op ends when its backend call ended with b:
\* try: await chat_with_fallback(...)  except Exception: raise, or return
\* an error text
func(op, b) ==
    IF b = "ok" \/ op \in ReturnsOnError THEN "ok" ELSE b

\* if attempt == _retries - 1 with the mutation that never lets go
LastAllowedNever(a) == FALSE

\* if attempt == _retries - 1: this was the last attempt
LastAllowed(a) == a = retries - 1

\* wait_time of the except clause for the failure e of attempt a
wait_time(a, e, d) ==
    IF e = "429" THEN LongWait
    ELSE IF a = retries - 2 THEN LongWait
    ELSE d

\* return await func(*args, **kwargs): func is started
StartFunc(c) ==
    /\ rpc' = [rpc EXCEPT ![c] = "run"]
    /\ tries' = [tries EXCEPT ![c] = @ + 1]
    /\ lastStart' = [caller |-> c, cool |-> coolLeft]

\* the wrapper returns or raises: its locals are gone
RetryLeave(c, how, v, made) ==
    /\ rpc' = [rpc EXCEPT ![c] = "idle"]
    /\ lastRet' = [n |-> tries[c], last |-> rlast'[c], outcome |-> how,
                   value |-> v, made |-> made, backend |-> rback'[c]]
    /\ tries' = [tries EXCEPT ![c] = 0]
    /\ rattempt' = [rattempt EXCEPT ![c] = 0]
    /\ rdelay' = [rdelay EXCEPT ![c] = retry_delay]

\* a decorated operation is called: the wrapper reads the shared cool-down
\* and either sleeps it out or enters the loop and starts func
RetryCall(c) ==
    /\ rpc[c] = "idle"
    /\ nRetryCalls < MaxRetryCalls
    /\ nRetryCalls' = nRetryCalls + 1
    /\ rlast' = [rlast EXCEPT ![c] = "none"]
    /\ rback' = [rback EXCEPT ![c] = "none"]
    /\ \E op \in DecoratedOps : rop' = [rop EXCEPT ![c] = op]
    /\ IF coolLeft > 0
       THEN /\ rpc' = [rpc EXCEPT ![c] = "cooldown"]
            /\ rsleep' = [rsleep EXCEPT ![c] = coolLeft]
            /\ UNCHANGED <<tries, lastStart>>
       ELSE /\ StartFunc(c)
            /\ UNCHANGED rsleep
    /\ UNCHANGED <<coolLeft, rattempt, rdelay, lastRet>>
    /\ UNCHANGED notRetry

\* asyncio.sleep(wait_duration) is over: the loop is entered
CooldownOver(c) ==
    /\ rpc[c] = "cooldown"
    /\ rsleep[c] = 0
    /\ StartFunc(c)
    /\ UNCHANGED <<coolLeft, rattempt, rdelay, rsleep, nRetryCalls, rlast,
                   lastRet, rop, rback>>
    /\ UNCHANGED notRetry

\* the awaited func returns or raises: return, or the except clause up to
\* its asyncio.sleep(wait_time)
FuncEnds(c) ==
    /\ rpc[c] = "run"
    /\ \E b \in Results, v \in Values :
      LET e == func(rop[c], b) IN
         /\ rlast' = [rlast EXCEPT ![c] = e]
         /\ rback' = [rback EXCEPT ![c] = b]
         /\ b # "ok" => v = 1
         /\ IF e = "ok"
            THEN /\ RetryLeave(c, "returned", v, v)
                 /\ UNCHANGED <<coolLeft, rsleep>>
            ELSE /\ IF e \notin Retryable \/ LastAllowed(rattempt[c])
                    THEN /\ RetryLeave(c, "raised", 0, 0)
                         /\ UNCHANGED <<coolLeft, rsleep>>
                    ELSE /\ coolLeft' = IF e = "429" THEN LongWait
                                        ELSE coolLeft
                         /\ rsleep' = [rsleep EXCEPT ![c] =
                                         wait_time(rattempt[c], e, rdelay[c])]
                         /\ rpc' = [rpc EXCEPT ![c] = "backoff"]
                         /\ UNCHANGED <<rattempt, rdelay, tries, lastRet>>
    /\ UNCHANGED <<nRetryCalls, lastStart, rop>>
    /\ UNCHANGED notRetry

\* asyncio.sleep(wait_time) is over: the back-off is applied and the loop
\* goes to its next attempt; after the last one the wrapper falls off the
\* loop and returns None
BackoffOver(c) ==
    /\ rpc[c] = "backoff"
    /\ rsleep[c] = 0
    /\ IF rattempt[c] + 1 < retries
       THEN /\ rattempt' = [rattempt EXCEPT ![c] = @ + 1]
            /\ rdelay' = [rdelay EXCEPT ![c] =
                            IF rattempt[c] < retries - 2 THEN @ * retry_backoff
                            ELSE @]
            /\ StartFunc(c)
            /\ UNCHANGED <<rlast, rback, lastRet>>
       ELSE /\ UNCHANGED <<rlast, rback, lastStart>>
            /\ RetryLeave(c, "returned", 0, 0)
    /\ UNCHANGED <<coolLeft, rsleep, nRetryCalls, rop>>
    /\ UNCHANGED notRetry

\* time passes until the next sleep of a wrapper or the cool-down ends; no
\* sleep is overslept, runs of func stay in progress
RetryTimePasses ==
    \E d \in {rsleep[c] : c \in Callers} \cup {coolLeft} :
      /\ d > 0
      /\ \A c \in Callers : rpc[c] \in {"cooldown", "backoff"}
                               => rsleep[c] >= d
      /\ coolLeft > 0 \/ \E c \in Callers : rpc[c] \in {"cooldown", "backoff"}
      /\ coolLeft' = Max2(0, coolLeft - d)
      /\ rsleep' = [c \in Callers |-> Max2(0, rsleep[c] - d)]
      /\ UNCHANGED <<rpc, rattempt, rdelay, nRetryCalls, tries, rlast,
                     lastStart, lastRet, rop, rback>>
      /\ UNCHANGED notRetry

NextRetry ==
    \/ \E c \in Callers : RetryCall(c)
    \/ \E c \in Callers : CooldownOver(c)
    \/ \E c \in Callers : FuncEnds(c)
    \/ \E c \in Callers : BackoffOver(c)
    \/ RetryTimePasses

SpecRetry == Init /\ [][NextRetry]_vars

\* ------------------------------------------------------ long-message sender
\* a text is a sequence of characters; positions are counted from 0 as in
\* the source: At(s, i) is s[i], Slice(s, a, b) is s[a:b]
BS == "\\"
TICK == "tick"           \* the backtick character
At(s, i) == s[i + 1]
Slice(s, a, b) == SubSeq(s, a + 1, b)

\* s.rfind(ch, 0, end): the highest index below end that holds ch, else -1
RECURSIVE rfind(_, _, _)
rfind(s, ch, end) ==
    IF end <= 0 THEN -1
    ELSE IF At(s, end - 1) = ch THEN end - 1
    ELSE rfind(s, ch, end - 1)

\* len(re.compile(r'(?<!\\)' + k times ch).findall(s)), scanning from index
\* i: matches do not overlap and none starts right after a backslash
RECURSIVE CountRuns(_, _, _, _)
CountRuns(s, ch, k, i) ==
    IF i + k > Len(s) THEN 0
    ELSE IF /\ \A j \in i..(i + k - 1) : At(s, j) = ch
            /\ (i = 0 \/ At(s, i - 1) # BS)
         THEN 1 + CountRuns(s, ch, k, i + k)
         ELSE CountRuns(s, ch, k, i + 1)

_TRIPLE_RE(s) == CountRuns(s, TICK, 3, 0)
_BACKTICK_RE(s) == CountRuns(s, TICK, 1, 0)
_DBL_STAR_RE(s) == CountRuns(s, "*", 2, 0)

\* _is_safe_cut(s, idx)
_is_safe_cut(s, idx) ==
    IF idx <= 0 \/ idx >= Len(s) THEN TRUE
    ELSE IF At(s, idx - 1) = BS THEN FALSE
    ELSE IF At(s, idx - 1) = "*" /\ At(s, idx) = "*" THEN FALSE
    ELSE IF At(s, idx - 1) = TICK /\ At(s, idx) = TICK THEN FALSE
    ELSE IF _TRIPLE_RE(Slice(s, 0, idx)) % 2 = 1 THEN FALSE
    ELSE IF _BACKTICK_RE(Slice(s, 0, idx)) % 2 = 1 THEN FALSE
    ELSE IF _DBL_STAR_RE(Slice(s, 0, idx)) % 2 = 1 THEN FALSE
    ELSE TRUE

\* the while loop of _find_safe_cut: probe goes down to a safe cut or to 0
RECURSIVE ProbeDown(_, _)
ProbeDown(s, probe) ==
    IF probe > 0 /\ ~_is_safe_cut(s, probe) THEN ProbeDown(s, probe - 1)
    ELSE probe

\* _find_safe_cut(s, limit)
_find_safe_cut(s, limit) ==
    LET end == Min2(limit, Len(s))
        candidates == {rfind(s, "\n", end), rfind(s, " ", end)} \ {-1}
        cut == IF candidates = {} THEN end
               ELSE CHOOSE c \in candidates : \A d \in candidates : d <= c
        probe == ProbeDown(s, cut)
    IN IF probe > 0 /\ _is_safe_cut(s, probe) THEN probe ELSE end

isdigit(ch) == ch = "1"

\* the while loop of _avoid_digit_split: j goes down over the digits
RECURSIVE DigitsDown(_, _)
DigitsDown(left, j) ==
    IF j >= 0 /\ isdigit(At(left, j)) THEN DigitsDown(left, j - 1) ELSE j

\* _avoid_digit_split(left, right)
_avoid_digit_split(left, right) ==
    IF left # <<>> /\ right # <<>> /\ isdigit(At(left, Len(left) - 1))
       /\ isdigit(At(right, 0))
    THEN LET j == DigitsDown(left, Len(left) - 1)
             moved == Slice(left, j + 1, Len(left))
         IN <<Slice(left, 0, j + 1), moved \o right>>
    ELSE <<left, right>>

\* _fix_boundary_inside_link(left, right)
_fix_boundary_inside_link(left, right) ==
    LET lb == rfind(left, "[", Len(left))
        rb == rfind(left, "]", Len(left))
        lp == rfind(left, "(", Len(left))
        rp == rfind(left, ")", Len(left))
    IN IF lb > rb
       THEN <<Slice(left, 0, lb), Slice(left, lb, Len(left)) \o right>>
       ELSE IF rb # -1 /\ rb < lp /\ lp > rp
       THEN <<Slice(left, 0, rb), Slice(left, rb, Len(left)) \o right>>
       ELSE <<left, right>>

\* chunk.rfind("**"): the highest index where two stars start, else -1
RECURSIVE rfind2(_, _)
rfind2(s, i) ==
    IF i < 0 THEN -1
    ELSE IF At(s, i) = "*" /\ At(s, i + 1) = "*" THEN i
    ELSE rfind2(s, i - 1)

\* chunk.endswith('\\') and not chunk.endswith('\\\\')
EndsInLoneBackslash(chunk) ==
    /\ Len(chunk) >= 1 /\ At(chunk, Len(chunk) - 1) = BS
    /\ ~(Len(chunk) >= 2 /\ At(chunk, Len(chunk) - 2) = BS)

\* _neutralize_unbalanced(chunk)
_neutralize_unbalanced(chunk) ==
    LET c1 == IF _TRIPLE_RE(chunk) % 2 = 1
              THEN chunk \o <<"\n", TICK, TICK, TICK>> ELSE chunk
        c2 == IF _BACKTICK_RE(c1) % 2 = 1 THEN c1 \o <<TICK>> ELSE c1
        last == rfind2(c2, Len(c2) - 2)
        c3 == IF /\ _DBL_STAR_RE(c2) % 2 = 1
                 /\ last # -1
                 /\ (last = 0 \/ At(c2, last - 1) # BS)
              THEN Slice(c2, 0, last) \o <<BS, "*", "*">>
                     \o Slice(c2, last + 2, Len(c2))
              ELSE c2
    IN IF EndsInLoneBackslash(c3) THEN c3 \o <<BS>> ELSE c3

\* one pass of the while loop of send_long_message up to the send: the next
\* chunk is cut off rest, the boundary is adjusted, the chunk is repaired
NextChunk(rest) ==
    LET c0 == _find_safe_cut(rest, MAX)
        cut == IF c0 <= 0 THEN MAX ELSE c0
        first == <<Slice(rest, 0, cut), Slice(rest, cut, Len(rest))>>
        second == _avoid_digit_split(first[1], first[2])
        third == IF Len(rest) <= MAX THEN <<rest, <<>>>>
                 ELSE _fix_boundary_inside_link(second[1], second[2])
    IN [raw |-> third[1], chunk |-> _neutralize_unbalanced(third[1]),
        rest |-> third[2]]

\* the literal https?:// of _URL_IN_PARENS, kept as one character of a text
SCHEME == "http://"

\* text.replace('\\', '').replace('*', '')
RemoveMarks(t) == SelectSeq(t, LAMBDA ch : ch \notin {BS, "*"})

\* the length of the longest prefix of t matched by [^)\s]*
RECURSIVE UrlRun(_)
UrlRun(t) ==
    IF t = <<>> \/ Head(t) \in {")", " ", "\n"} THEN 0
    ELSE 1 + UrlRun(Tail(t))

\* the length of the match of _URL_IN_PARENS, \((https?://[^)\s]+)\), at
\* the start of t, 0 when there is none
UrlMatch(t) ==
    IF Len(t) >= 4 /\ t[1] = "(" /\ t[2] = SCHEME
    THEN LET r == UrlRun(SubSeq(t, 3, Len(t)))
         IN IF r >= 1 /\ r + 3 <= Len(t) /\ t[r + 3] = ")" THEN r + 3 ELSE 0
    ELSE 0

\* _URL_IN_PARENS.sub('', t): the matches are found from left to right in
\* one pass over t and do not overlap
RECURSIVE RemoveUrls(_)
RemoveUrls(t) ==
    IF t = <<>> THEN <<>>
    ELSE LET m == UrlMatch(t)
         IN IF m > 0 THEN RemoveUrls(SubSeq(t, m + 1, Len(t)))
            ELSE <<Head(t)>> \o RemoveUrls(Tail(t))

\* t.split('\n')
RECURSIVE split_lines(_, _)
split_lines(t, line) ==
    IF t = <<>> THEN <<line>>
    ELSE IF Head(t) = "\n" THEN <<line>> \o split_lines(Tail(t), <<>>)
    ELSE split_lines(Tail(t), Append(line, Head(t)))

\* line.strip(): the line without its leading and trailing blanks
RECURSIVE strip(_)
strip(line) ==
    IF line = <<>> THEN <<>>
    ELSE IF Head(line) = " " THEN strip(Tail(line))
    ELSE IF line[Len(line)] = " " THEN strip(SubSeq(line, 1, Len(line) - 1))
    ELSE line

\* '\n'.join(lines)
RECURSIVE join_lines(_)
join_lines(lines) ==
    IF lines = <<>> THEN <<>>
    ELSE IF Len(lines) = 1 THEN lines[1]
    ELSE lines[1] \o <<"\n">> \o join_lines(Tail(lines))

\* the lines that are not "---" once stripped, joined again
RemoveRules(t) ==
    join_lines(SelectSeq(split_lines(t, <<>>),
                         LAMBDA line : strip(line) # <<"-", "-", "-">>))

\* re.sub(r'\n{3,}', '\n\n', t): of every run of line breaks two are kept
RECURSIVE SqueezeBreaks(_)
SqueezeBreaks(t) ==
    IF t = <<>> THEN <<>>
    ELSE IF Len(t) >= 3 /\ t[1] = "\n" /\ t[2] = "\n" /\ t[3] = "\n"
    THEN SqueezeBreaks(Tail(t))
    ELSE <<Head(t)>> \o SqueezeBreaks(Tail(t))

\* _clean_text_for_plain_send(text)
_clean_text_for_plain_send(text) ==
    SqueezeBreaks(RemoveRules(RemoveUrls(RemoveMarks(text))))

\* the texts handed to send_long_message
Alphabet == {"a", " ", BS, "*", TICK, "1", "[", "]", "(", ")"}
Texts == UNION {[1..n -> Alphabet] : n \in 0..MaxText}

\* what is sent at each attempt for a chunk: the chunk as rendered, after
\* _escape_hash_and_dot_outside_code, after _escape_hyphens_outside_code on
\* top of that, and last _clean_text_for_plain_send of the chunk
Form(stage) ==
    CASE stage = 1 -> <<>>
      [] stage = 2 -> <<"_escape_hash_and_dot_outside_code">>
      [] stage = 3 -> <<"_escape_hash_and_dot_outside_code",
                        "_escape_hyphens_outside_code">>
      [] stage = 4 -> <<"_clean_text_for_plain_send">>

\* if rest: common_kwargs else: last_kwargs, with the mutation that sends
\* every chunk with last_kwargs
WithControlsAlways(how, rest) == TRUE

\* whether the attempt keeps reply_markup: the unsplit text is sent with
\* kwargs; in the loop, if rest: common_kwargs else: last_kwargs
WithControls(how, rest) == how = "whole" \/ rest = <<>>

\* the reply_text call of the given stage
Attempt(stage, how, rest, markup) ==
    [form |-> Form(stage),
     parse_mode |-> stage < 4,
     reply_markup |-> markup /\ WithControls(how, rest),
     result |-> "pending"]

\* except BadRequest with the mutation that catches every exception
EscalatesOnAnyError(outcome) == outcome # "ok"

\* except BadRequest: the failures of reply_text answered by the next stage
Escalates(outcome) == outcome = "BadRequest"

\* send_long_message returns or raises after a reply_text call that ended
\* with result: its locals are gone
SendLeave(how, result) ==
    /\ shw' = "idle"
    /\ lastSend' = [outcome |-> how, frames |-> sframe, result |-> result]
    /\ stext' = <<>> /\ sprefix' = <<>> /\ sraw' = <<>> /\ schunk' = <<>>
    /\ srest' = <<>> /\ sframe' = 0 /\ tried' = <<>> /\ smarkup' = FALSE

\* the next pass of the while loop: cut, adjust, repair, first reply_text
SendNextChunk(prefix, rest, how, markup) ==
    LET nc == NextChunk(rest)
    IN /\ sprefix' = prefix
       /\ sraw' = nc.raw
       /\ schunk' = nc.chunk
       /\ srest' = nc.rest
       /\ tried' = <<Attempt(1, how, nc.rest, markup)>>

\* send_long_message from the return of _extract_code_to_files up to the
\* first reply_text
SendBegins(text, markup) ==
    /\ stext' = text
    /\ smarkup' = markup
    /\ sframe' = 1
    /\ IF Len(text) <= MAX
       THEN /\ shw' = "whole"
            /\ sprefix' = <<>> /\ sraw' = text /\ schunk' = text
            /\ srest' = <<>>
            /\ tried' = <<Attempt(1, "whole", <<>>, markup)>>
       ELSE /\ shw' = "split"
            /\ SendNextChunk(<<>>, text, "split", markup)

\* send_long_message(update, text, **kwargs) is called with one of the
\* given texts, none of which holds a fenced block, so that
\* _extract_code_to_files returns it as it is: up to the first reply_text
SendCall(texts, markups) ==
    /\ shw = "idle"
    /\ nSends < MaxSends
    /\ nSends' = nSends + 1
    /\ \E text \in texts, markup \in markups : SendBegins(text, markup)
    /\ UNCHANGED lastSend
    /\ UNCHANGED notSend

send_long_message == SendCall(Texts, BOOLEAN)

\* the text of the reply_text call of the given stage, as far as the
\* transport's answer depends on it: the escapes of stages 2 and 3 add
\* backslashes to the chunk, the last stage sends the cleaned chunk
Sent(stage, chunk) ==
    IF stage = 4 THEN _clean_text_for_plain_send(chunk) ELSE chunk

\* the pending reply_text returns or raises; the handlers up to the next
\* reply_text. The transport never accepts an empty text, nor a plain text
\* longer than the ceiling; it rejects a text sent without parse_mode for
\* no other reason. Apart from that the call may end in any of the failures
\* given.
Answer(failures) ==
    /\ shw # "idle"
    /\ \E outcome \in {"ok", "BadRequest", "error"} :
         LET stage == Len(tried)
             answered == [tried EXCEPT ![stage].result = outcome]
             sent == Sent(stage, schunk)
             refused == sent = <<>> \/ (stage = 4 /\ Len(sent) > MAX)
         IN /\ refused => outcome # "ok"
            /\ (stage = 4 /\ outcome = "BadRequest") => refused
            /\ outcome \in failures \cup {"ok"}
                 \/ (outcome = "BadRequest" /\ refused)
            /\ IF outcome = "ok"
               THEN IF shw = "whole" \/ srest = <<>>
                    THEN SendLeave("delivered", outcome)
                    ELSE /\ SendNextChunk(sprefix \o sraw, srest, shw,
                                          smarkup)
                         /\ sframe' = sframe + 1
                         /\ UNCHANGED <<shw, stext, smarkup, lastSend>>
               ELSE IF Escalates(outcome) /\ stage < 4
               THEN /\ tried' = Append(answered,
                                       Attempt(stage + 1, shw, srest,
                                               smarkup))
                    /\ UNCHANGED <<shw, stext, sprefix, sraw, schunk, srest,
                                   sframe, smarkup, lastSend>>
               ELSE SendLeave("raised", outcome)
    /\ UNCHANGED nSends
    /\ UNCHANGED notSend

Reply == Answer({"BadRequest", "error"})

NextSend == send_long_message \/ Reply

SpecSend == Init /\ [][NextSend]_vars

\* --------------------------------------- the splitting of one long text
\* a rendered text without code spans, a little longer than two ceilings
\* (exactly 9000 characters for a ceiling of 4096), made of letters, spaces,
\* line breaks, digits and link brackets
ScenarioLen == 2 * MAX + 1
ScenarioAlphabet == {"a", " ", "\n", "1", "["}
ScenarioTexts == [1..ScenarioLen -> ScenarioAlphabet]

\* send_long_message is called with such a text
SplitCall == SendCall(ScenarioTexts, {FALSE})

\* the transport accepts every text it can accept
Accept == Answer({})

NextSplit == SplitCall \/ Accept

SpecSplit == Init /\ [][NextSplit]_vars

\* ------------------------------------------- code blocks sent as files
\* _CODE_AS_FILE_THRESHOLD = 2000 (characters), scaled down
_CODE_AS_FILE_THRESHOLD == 2
\* the placeholder left where a block was: three pictographs (one atom
\* here) and a line break
PLACEHOLDER == <<"glyph", "\n">>
\* [A-Za-z0-9_+\-], as far as the texts below have its members
LangChars == {"a", "c", "1", "+"}
FENCE == <<TICK, TICK, TICK>>
NoMatch == [start |-> -1, end |-> -1, lang |-> <<>>, code |-> <<>>]

\* the three backticks at index i (counted from 0)
IsFenceAt(t, i) == i + 3 <= Len(t) /\ Slice(t, i, i + 3) = FENCE

\* ([A-Za-z0-9_+\-]*) from index j: the index behind the longest run
RECURSIVE LangEnd(_, _)
LangEnd(t, j) ==
    IF j < Len(t) /\ t[j + 1] \in LangChars THEN LangEnd(t, j + 1) ELSE j

\* ([\s\S]*?)\n``` from index j: the index of the first line break that
\* three backticks follow, -1 when there is none
RECURSIVE BodyEnd(_, _)
BodyEnd(t, j) ==
    IF j >= Len(t) THEN -1
    ELSE IF t[j + 1] = "\n" /\ IsFenceAt(t, j + 1) THEN j
    ELSE BodyEnd(t, j + 1)

\* _CODE_BLOCK_RE.match at index i
MatchAt(t, i) ==
    IF ~IsFenceAt(t, i) THEN NoMatch
    ELSE LET l == LangEnd(t, i + 3)
         IN IF ~(l < Len(t) /\ t[l + 1] = "\n") THEN NoMatch
            ELSE LET e == BodyEnd(t, l + 1)
                 IN IF e < 0 THEN NoMatch
                    ELSE [start |-> i, end |-> e + 4,
                          lang |-> Slice(t, i + 3, l),
                          code |-> Slice(t, l + 1, e)]

\* _CODE_BLOCK_RE.finditer(text), from index i on
RECURSIVE finditer(_, _)
finditer(t, i) ==
    IF i >= Len(t) THEN <<>>
    ELSE LET m == MatchAt(t, i)
         IN IF m = NoMatch THEN finditer(t, i + 1)
            ELSE <<m>> \o finditer(t, m.end)

\* the matches the loop does not pass over with continue
Large(ms) == SelectSeq(ms, LAMBDA m : Len(m.code) >= _CODE_AS_FILE_THRESHOLD)

\* _guess_ext, as far as the texts below have its keys
_guess_ext(lang) ==
    IF lang = <<"c">> THEN "c"
    ELSE IF lang = <<"c", "+", "+">> THEN "cpp"
    ELSE "txt"

\* the texts: at most one character, a fence with a tag of at most
\* MaxTag characters, a body of at most MaxBody characters on its own
\* lines, the closing fence, at most one character
TagTexts == UNION {[1..n -> {"c", "#"}] : n \in 0..MaxTag}
BodyTexts == UNION {[1..n -> {"a", "\n"}] : n \in 0..MaxBody}
EdgeTexts == {<<>>, <<"a">>}
Fenced(pre, tag, body, post) ==
    pre \o FENCE \o tag \o <<"\n">> \o body \o <<"\n">> \o FENCE \o post
BlockTexts ==
    {Fenced(pre, tag, body, post) :
        pre \in EdgeTexts, tag \in TagTexts, body \in BodyTexts,
        post \in EdgeTexts}

\* the text _extract_code_to_files returns when its loop has ended
Extracted(text, pos, out) == out \o Slice(text, pos, Len(text))

\* send_long_message(update, text) is called: _extract_code_to_files up to
\* its first reply_document or, when no block reaches the threshold, on to
\* the first reply_text
ExtractBegins(text, markup) ==
    LET ms == Large(finditer(text, 0))
    IN /\ xtext' = text
       /\ xms' = ms
       /\ xpos' = 0
       /\ xdocs' = <<>>
       /\ IF ms = <<>>
          THEN /\ xout' = <<>>
               /\ SendBegins(Extracted(text, 0, <<>>), markup)
          ELSE /\ xout' = Slice(text, 0, ms[1].start)
               /\ shw' = "attach"
               /\ smarkup' = markup
               /\ UNCHANGED <<stext, srest, schunk, tried, sraw, sprefix,
                              sframe>>

ExtractCall ==
    /\ shw = "idle"
    /\ nSends < MaxSends
    /\ nSends' = nSends + 1
    /\ \E text \in BlockTexts : ExtractBegins(text, FALSE)
    /\ UNCHANGED lastSend
    /\ UNCHANGED <<botVars, govVars, retryVars, admitVars, cleanVars,
                   paceVars, deliverVars>>

\* the pending reply_document returns or raises: the loop up to the next
\* reply_document or, past the last match, on to the first reply_text
reply_document ==
    /\ shw = "attach"
    /\ \E outcome \in {"ok", "error"} :
         IF outcome = "ok"
         THEN LET m == xms[1]
                  out == xout \o PLACEHOLDER
                  left == Tail(xms)
              IN /\ xdocs' = Append(xdocs,
                                    [name |-> Len(xdocs) + 1,
                                     ext |-> _guess_ext(m.lang),
                                     code |-> m.code])
                 /\ xms' = left
                 /\ xpos' = m.end
                 /\ IF left = <<>>
                    THEN /\ xout' = out
                         /\ SendBegins(Extracted(xtext, m.end, out),
                                       smarkup)
                    ELSE /\ xout' = out \o Slice(xtext, m.end,
                                                 left[1].start)
                         /\ UNCHANGED <<shw, stext, smarkup, srest, schunk,
                                        tried, sraw, sprefix, sframe>>
                 /\ UNCHANGED lastSend
         ELSE /\ SendLeave("raised", outcome)
              /\ UNCHANGED <<xms, xpos, xout, xdocs>>
    /\ UNCHANGED <<xtext, nSends>>
    /\ UNCHANGED <<botVars, govVars, retryVars, admitVars, cleanVars,
                   paceVars, deliverVars>>

\* the frames of the text that is left
Frame ==
    /\ Accept
    /\ UNCHANGED extractVars

NextExtract == ExtractCall \/ reply_document \/ Frame

SpecExtract == Init /\ [][NextExtract]_vars

\* --------------------------------------------- cuts at a link construct
\* the texts: at most MaxPre characters, a link [label](url), at most one
\* character
PreTexts == UNION {[1..n -> {"a", " "}] : n \in 0..MaxPre}
LabelTexts == UNION {[1..n -> {"a", " "}] : n \in 0..MaxLabel}
UrlTexts == UNION {[1..n -> {"a"}] : n \in 1..MaxUrl}
Link(pre, label, url, post) ==
    pre \o <<"[">> \o label \o <<"]", "(">> \o url \o <<")">> \o post
LinkTexts ==
    {Link(pre, label, url, post) :
        pre \in PreTexts, label \in LabelTexts, url \in UrlTexts,
        post \in EdgeTexts}

\* send_long_message is called with such a text
LinkCall == SendCall(LinkTexts, {FALSE})

\* the transport answers a frame
LinkFrame == Accept

NextLink == LinkCall \/ LinkFrame

SpecLink == Init /\ [][NextLink]_vars

\* ------------------------------------------------- call-admission limiter
\* The generation-backend calls of the mode handlers, in the order a handler
\* makes them. A call is guarded when it stands inside an
\* async with llm_semaphore block of the handler.
G(op) == [op |-> op, guarded |-> TRUE]
U(op) == [op |-> op, guarded |-> FALSE]

\* for step in steps: get_sub_queries, and generate_summary_from_chunks when
\* the step's search left any chunk
RECURSIVE StepSeqs(_)
StepSeqs(k) ==
    IF k = 0 THEN {<<>>}
    ELSE {s \o t : s \in {<<G("get_sub_queries")>>,
                          <<G("get_sub_queries"),
                            G("generate_summary_from_chunks")>>},
                   t \in StepSeqs(k - 1)}

\* research_data is not empty
HasSummary(calls) ==
    \E i \in DOMAIN calls : calls[i].op = "generate_summary_from_chunks"

\* for chunk in chunks: summarize_research_chunk(chunk, query, lang)
RECURSIVE ChunkCalls(_)
ChunkCalls(n) ==
    IF n = 0 THEN <<>>
    ELSE <<U("summarize_research_chunk")>> \o ChunkCalls(n - 1)

fast_reply_handler == {<<G("fast_reply")>>}

deepseek_r1_handler == {<<G("deepseek_r1_reply")>>}

fast_web_handler ==
    {<<G("prompt_without_context")>>, <<G("generate_answer_from_serp")>>}

\* chart_generator.generate_chart awaits
\* llm_client.chat.completions.create in get_chart_data_from_text
deep_search_handler ==
    {<<G("get_sub_queries"), answer, U("generate_chart")>> :
        answer \in {G("prompt_without_context"), G("synthesize_answer")}}

deep_research_handler ==
    {<<G("get_research_steps")>>} \cup
    UNION {
      {IF HasSummary(body)
       THEN <<G("get_research_steps")>> \o body \o ChunkCalls(c)
            \o <<G("polish_research_answer"), U("generate_chart")>>
       ELSE <<G("get_research_steps")>> \o body : c \in 1..MaxChunks} :
      body \in UNION {StepSeqs(k) : k \in 1..MaxSteps}}

handler_map(m) ==
    CASE m = "web" -> fast_web_handler
      [] m = "deep_research" -> deep_research_handler
      [] m = "deep_search" -> deep_search_handler
      [] m = "fast_reply" -> fast_reply_handler
      [] m = "deepseek_r1" -> deepseek_r1_handler

\* worker(): await handler(update, context, query) for the Job the worker
\* took; the handler goes on to its first generation call
HandlerBegins(w) ==
    /\ hpc[w] = "idle"
    /\ nHandlers < MaxHandlers
    /\ nHandlers' = nHandlers + 1
    /\ \E m \in Modes : \E calls \in handler_map(m) :
          hprog' = [hprog EXCEPT ![w] = calls]
    /\ hpc' = [hpc EXCEPT ![w] = "ready"]
    /\ UNCHANGED permits
    /\ UNCHANGED notAdmit

\* async with llm_semaphore: the handler waits while no permit is left,
\* takes one and awaits the generation call inside the block
GuardedCall(w) ==
    /\ hpc[w] = "ready"
    /\ Head(hprog[w]).guarded
    /\ Cardinality(permits) < SemaphoreLimit
    /\ permits' = permits \cup {w}
    /\ hpc' = [hpc EXCEPT ![w] = "call"]
    /\ UNCHANGED <<hprog, nHandlers>>
    /\ UNCHANGED notAdmit

\* a generation call awaited outside every async with llm_semaphore block
BareCall(w) ==
    /\ hpc[w] = "ready"
    /\ ~Head(hprog[w]).guarded
    /\ hpc' = [hpc EXCEPT ![w] = "call"]
    /\ UNCHANGED <<hprog, nHandlers, permits>>
    /\ UNCHANGED notAdmit

\* the generation call is over: the async with block gives the permit back;
\* an exception out of a guarded call ends the handler in its except
\* clause, otherwise the handler goes on to its next call or returns
CallEnds(w) ==
    /\ hpc[w] = "call"
    /\ permits' = permits \ {w}
    /\ \E raised \in (IF Head(hprog[w]).guarded THEN BOOLEAN ELSE {FALSE}) :
          LET rest == IF raised THEN <<>> ELSE Tail(hprog[w])
          IN /\ hprog' = [hprog EXCEPT ![w] = rest]
             /\ hpc' = [hpc EXCEPT ![w] =
                   IF rest = <<>> THEN "idle" ELSE "ready"]
    /\ UNCHANGED nHandlers
    /\ UNCHANGED notAdmit

\* llm_semaphore.locked() with as many permits as there are workers
LockedAtPoolSize == Cardinality(permits) >= worker_count

\* llm_semaphore.locked() as worker() reads it before it calls a handler:
\* no permit is left while the handlers hold theirs
SemaphoreLocked == Cardinality(permits) >= SemaphoreLimit

NextAdmit ==
    \/ \E w \in Workers : HandlerBegins(w)
    \/ \E w \in Workers : GuardedCall(w)
    \/ \E w \in Workers : BareCall(w)
    \/ \E w \in Workers : CallEnds(w)

SpecAdmit == Init /\ [][NextAdmit]_vars

\* ------------------------------------------------- plain-text fallback
\* the texts the fallback is applied to: short texts over every character
\* the function treats in a way of its own, and longer ones made of the
\* characters of a URL in parentheses
CleanAlphabet == {"a", " ", BS, "*", "\n", "-", "(", ")", SCHEME}
UrlAlphabet == {"a", "(", ")", SCHEME}
CleanTexts ==
    UNION {[1..n -> CleanAlphabet] : n \in 0..MaxPlain}
    \cup UNION {[1..n -> UrlAlphabet] : n \in 0..MaxUrlText}

\* cleaned = _clean_text_for_plain_send(text)
CleanText ==
    /\ nCleans = 0
    /\ nCleans' = 1
    /\ \E t \in CleanTexts :
         /\ ptext' = t
         /\ pclean' = _clean_text_for_plain_send(t)
    /\ UNCHANGED notClean

\* the fallback is applied to a text it has produced
CleanAgain ==
    /\ nCleans \in 1..(MaxCleans - 1)
    /\ nCleans' = nCleans + 1
    /\ ptext' = pclean
    /\ pclean' = _clean_text_for_plain_send(pclean)
    /\ UNCHANGED notClean

NextClean == CleanText \/ CleanAgain

SpecClean == Init /\ [][NextClean]_vars

\* ======================================================= checked properties
\* positions 1, 3, 5, ... of a joined query hold the fragments of the burst in
\* arrival order, positions 2, 4, ... hold one separator each
JoinedInOrder(q, burst) ==
    /\ Len(q) = 2 * Len(burst) - 1
    /\ \A i \in 1..Len(burst) : q[2 * i - 1] = burst[i].id
    /\ \A i \in 1..(Len(burst) - 1) : q[2 * i] = SP

C3_EqualPriorityFifo ==
    \A i \in 1..Len(lastTake.rest) :
        lastTake.rest[i].prio = lastTake.prio
            => lastTake.rest[i].update > lastTake.update

\* C4 (the lowest priority value is taken): when an envelope is taken, no
\* envelope still in the queue has a strictly smaller priority value.
C4_MinimalPriorityTaken ==
    \A i \in 1..Len(lastTake.rest) : lastTake.rest[i].prio >= lastTake.prio

\* C5 (worker crash isolation): whatever is raised while a Job is processed,
\* no worker leaves its loop and the pool is not stopped.
C5_NoWorkerStops ==
    /\ ~stopped
    /\ \A w \in Workers : pc[w] # "dead"

\* C6 (never silence): every Job a worker has finished got an answer or a
\* failure message.
C6_NeverSilent ==
    lastEnd.update # 0 => lastEnd.msgs \cap {"answer", "failure"} # {}

\* C7 (typing signal stopped): a worker that is about to take an envelope,
\* waits for one, or has left its loop has no typing task running.
C7_TypingStopped ==
    \A w \in Workers :
        pc[w] \in {"get", "wait", "dead"} => typing[w] = "none"

\* C7 witness: a worker is back at queue.get() after a Job whose handler
\* raised, and its typing task has stopped.
C7_Witness ==
    \E w \in Workers :
        /\ pc[w] = "get"
        /\ exc[w] = "handled"
        /\ lastEnd.update = req[w].update
        /\ lastEnd.update # 0
        /\ typing[w] = "none"

\* C8, state part: an invocation has issued at most two requests, the first
\* to its primary, the second to the other backend and only after the first
\* failed with 429, 503 or a connection or timeout error; an invocation
\* whose second request failed has ended by raising.
C8_AtMostTwoRequests ==
    /\ \A c \in Callers :
         LET r == reqs[c]
         IN /\ Len(r) <= 2
            /\ Len(r) >= 1 => r[1].model = primary[c]
            /\ Len(r) = 2 => /\ r[1].status \in {"429", "503", "conn"}
                             /\ r[2].model \in Models \ {primary[c]}
    /\ lastDone.n <= 2
    /\ (lastDone.n = 2 /\ lastDone.last # "200") => lastDone.outcome = "raised"

\* C8, step part: the step in which an invocation turns to its secondary
\* leaves the primary ineligible for at least 3 s.
C8_PrimaryHeld ==
    \A c \in Callers :
        (attempt[c] = 1 /\ attempt'[c] = 2) => readyIn'[primary[c]] >= ShortHold

\* C8 (one level of failover): a chat_with_fallback invocation issues at most
\* two requests, the primary first and the alternate only after a 429, a 503
\* or a connection or timeout error of the primary, which is then held
\* ineligible for 3 s; a failure of the alternate is raised to the caller
\* with no further request.
C8_OneLevelFailover == []C8_AtMostTwoRequests /\ [][C8_PrimaryHeld]_vars

\* C8 witness: an invocation has ended by raising after both of its requests
\* failed.
C8_Witness ==
    /\ lastDone.n = 2
    /\ lastDone.last \in Statuses \ {"200"}
    /\ lastDone.outcome = "raised"

\* C9 (throttling scenario): no request goes to backend A (LLAMA_FREE) before
\* 30 s have passed since A, as a primary, last answered 429 with a 30 s
\* reset hint; the
\* invocation that got the 429 from its primary is on its attempt against
\* the other backend; an invocation whose second request was answered with
\* 200 has returned.
C9_ThrottlingScenario ==
    /\ lastIssue.model = LLAMA_FREE => lastIssue.hintLeft = 0
    /\ \A c \in Callers :
         (Len(reqs[c]) >= 1 /\ reqs[c][1].status = "429")
            => /\ attempt[c] = 2
               /\ cpc[c] \in {"sleep", "flight"}
               /\ Target(c) = _other_free(primary[c])
    /\ (lastDone.n = 2 /\ lastDone.last = "200") => lastDone.outcome = "returned"

\* C10 (requests wait for eligibility): a request is posted to a backend only
\* when the backend's next eligible time, as it stands at that moment, has
\* been reached.
C10_IssuedWhenEligible == lastIssue.early = 0

\* C11 (state part): func is started at most `retries` times in one decorated
\* call; a call that returned returns what its last run of func returned,
\* and that run succeeded; a call that raised raises after a failed run,
\* which is the last allowed one or one the decorator does not retry
C11_Outcomes ==
    /\ \A c \in Callers : tries[c] <= retries
    /\ lastRet.n <= retries
    /\ lastRet.outcome = "returned"
         => lastRet.last = "ok" /\ lastRet.value = lastRet.made
            /\ lastRet.value \in Values
    /\ lastRet.outcome = "raised"
         => /\ lastRet.last \in Results \ {"ok"}
            /\ lastRet.last \in Retryable => lastRet.n = retries

\* C11 (step part): func is started again in a call only after a failed run
\* that was not the last allowed one, never after a success
C11_NoFurtherAttempt ==
    \A c \in Callers :
      (tries'[c] = tries[c] + 1 /\ tries[c] > 0)
        => rlast[c] \in Retryable /\ tries[c] < retries

\* C11: a retry-decorated operation runs the wrapped operation at most
\* `retries` (4) times, returns the result of the first run that succeeds,
\* re-raises the error of the last allowed run, and makes no further run
\* after a success or after the last allowed run
C11_BoundedRetry == []C11_Outcomes /\ [][C11_NoFurtherAttempt]_vars

\* a decorated call has raised after `retries` failed runs
C11_Witness ==
    lastRet.outcome = "raised" /\ lastRet.n = retries
    /\ lastRet.last \in Retryable

\* C12: shared cool-down: no caller starts a run of the wrapped operation
\* while less than 60 s have passed since a run failed with a throttling
\* error
C12_SharedCooldown == lastStart.cool = 0

\* C13 (state part): the attempts made for a chunk are, in this order, the
\* chunk as rendered, stage 1, stage 2, plain text; there are at most four,
\* and every attempt but the latest was rejected with BadRequest
C13_Order ==
    /\ Len(tried) <= 4
    /\ \A i \in 1..Len(tried) :
         /\ tried[i].form =
              << <<>>,
                 <<"_escape_hash_and_dot_outside_code">>,
                 <<"_escape_hash_and_dot_outside_code",
                   "_escape_hyphens_outside_code">>,
                 <<"_clean_text_for_plain_send">> >>[i]
         /\ tried[i].parse_mode = (i < 4)
         /\ i < Len(tried) => tried[i].result = "BadRequest"

\* C13 (step part): a further attempt for the same chunk is made only when
\* the previous one was rejected with BadRequest; otherwise the sender goes
\* on to the next chunk or ends
C13_Step ==
    tried' # tried =>
      \/ Len(tried') <= 1
      \/ /\ sframe' = sframe /\ schunk' = schunk
         /\ Len(tried') = Len(tried) + 1
         /\ tried'[Len(tried)].result = "BadRequest"
         /\ \A i \in 1..(Len(tried) - 1) : tried'[i] = tried[i]

\* C13: staged delivery fallback: per chunk (and once for an unsplit text)
\* the attempts are made in the order rendered, stage 1, stage 2, plain
\* text, each later one only after the transport rejected the previous one,
\* an accepted chunk is not sent again, at most four attempts per chunk
C13_StagedFallback == []C13_Order /\ [][C13_Step]_vars

\* the second chunk of a split text is at its plain-text attempt
C13_Witness == shw = "split" /\ sframe = 2 /\ Len(tried) = 4

\* C14: in a split delivery a chunk is sent with reply_markup exactly when
\* it is the last one (nothing is left to send) and the caller gave one, at
\* every stage of the fallback
C14_ControlsOnLastOnly ==
    shw = "split" =>
      \A i \in 1..Len(tried) :
        tried[i].reply_markup = (smarkup /\ srest = <<>>)

\* the first chunk of a split text with controls was sent without them, and
\* its last chunk is at the plain-text attempt, still with them
C14_Witness ==
    /\ shw = "split" /\ smarkup /\ sframe = 2 /\ srest = <<>>
    /\ Len(sprefix) > 0 /\ Len(tried) = 4 /\ tried[4].reply_markup

\* C15: no chunk handed to the transport, as it stands after cutting and
\* repair, is longer than the ceiling
C15_FrameWithinCeiling == shw = "split" => Len(schunk) <= MAX

\* C16: splitting loses nothing: the chunks cut so far and the rest add up
\* to the text, and every chunk takes at least one character off the rest,
\* so that the chunks add up to the whole text
C16_SplitLosesNothing ==
    shw = "split" =>
      /\ sprefix \o sraw \o srest = stext
      /\ sraw # <<>>

\* the number of backslashes a text ends in
RECURSIVE TrailingBackslashes(_)
TrailingBackslashes(s) ==
    IF s = <<>> \/ s[Len(s)] # BS THEN 0
    ELSE 1 + TrailingBackslashes(SubSeq(s, 1, Len(s) - 1))

\* C17: after repair every chunk of a split delivery holds an even number of
\* unescaped fence markers, of unescaped inline-code markers and of
\* unescaped double-emphasis markers, and does not end in a lone backslash
C17_FramesBalanced ==
    shw = "split" =>
      /\ _TRIPLE_RE(schunk) % 2 = 0
      /\ _BACKTICK_RE(schunk) % 2 = 0
      /\ _DBL_STAR_RE(schunk) % 2 = 0
      /\ TrailingBackslashes(schunk) % 2 = 0

\* the timer job whose callback runs in this step, if any
Flushing(f) == f \in fired /\ fired' = fired \ {f}

\* C18 (step): a flush that finds a joined query longer than
\* MAX_MESSAGE_LENGTH sends the too-long advisory, puts nothing on the
\* dispatch queue and leaves the session's buffer, latest update and timer
\* entry cleared; a joined query of exactly that length is put on the queue
C18_Step ==
    \A f \in fired :
      (Flushing(f) /\ buffers[f.chat] # <<>> /\ lastUpdate[f.chat] # 0)
        => IF JoinLen(buffers[f.chat]) > MAX_MESSAGE_LENGTH
           THEN /\ lastFlush'.advisory /\ lastFlush'.jobs = 0
                /\ heap' = heap /\ unfinished' = unfinished
                /\ buffers'[f.chat] = <<>> /\ lastUpdate'[f.chat] = 0
                /\ trackers'[f.chat] = 0
           ELSE /\ ~lastFlush'.advisory /\ lastFlush'.jobs = 1
                /\ Len(heap') = Len(heap) + 1
                /\ \E i \in 1..Len(heap') :
                     /\ heap'[i].update = lastUpdate[f.chat]
                     /\ heap'[i].query = Join(buffers[f.chat])

C19_Step ==
    \A f \in fired :
      (Flushing(f) /\ (buffers[f.chat] = <<>> \/ lastUpdate[f.chat] = 0))
        => /\ heap' = heap /\ unfinished' = unfinished
           /\ lastFlush'.jobs = 0 /\ ~lastFlush'.advisory
           /\ sched' = sched
           /\ \A s \in Sessions \ {f.chat} :
                /\ buffers'[s] = buffers[s]
                /\ lastUpdate'[s] = lastUpdate[s]
                /\ trackers'[s] = trackers[s]

\* C19: a flush that finds no buffered input or no latest update for its
\* session is a no-op for the queue, the user and every other session
C19_EmptyFlushNoOp == [][C19_Step]_vars

\* a flush has found nothing while another session has input buffered
C19_Witness ==
    /\ lastFlush.timer # 0 /\ lastFlush.burst = <<>>
    /\ \E s \in Sessions \ {lastFlush.chat} : buffers[s] # <<>>

\* the updates of the envelopes in a heap list
Queued(h) == {h[i].update : i \in 1..Len(h)}

\* C20 (step part): an envelope leaves the queue only into the hands of one
\* worker, which goes on to call the handler for it
C20_TakenOnce ==
    Len(heap') < Len(heap) =>
      \E w \in Workers :
        /\ pc[w] = "get" /\ pc'[w] = "handler" /\ has'[w]
        /\ req'[w].update \in Queued(heap) \ Queued(heap')
        /\ \A v \in Workers \ {w} : req'[v] = req[v]

\* C20 (state part): no Job sits in the queue while a worker waits on the
\* queue and no worker is on its way to the queue
C20_NoStrandedJob ==
    ~ /\ heap # <<>>
      /\ \E w \in Workers : pc[w] = "wait"
      /\ \A w \in Workers : pc[w] \in {"wait", "dead"}

\* C20: every Job submitted to the dispatch queue is taken by exactly one
\* worker and its handler is invoked once; no Job is lost on the way and none
\* stays in the queue while a worker is waiting on the queue
C20_ConsumedOnce == []C20_NoStrandedJob /\ [][C20_TakenOnce]_vars

\* C21: for any two Jobs of one session, the Job flushed earlier is taken by
\* a worker before the Job flushed later: when a worker takes a Job, no Job
\* of the same session with an earlier update is left in the queue
C21_SessionOrder ==
    [][\A w \in Workers :
         (has'[w] /\ ~has[w]) =>
            \A i \in DOMAIN heap' :
               heap'[i].chat = req'[w].chat =>
                  heap'[i].update > req'[w].update]_vars

\* C22: the mode handler a worker runs for a Job is the handler of the mode
\* that was in effect for the session when the Job was flushed, the mode its
\* priority was derived from (Priority is one-to-one on Modes), even if the
\* session's mode changed while the Job waited in the queue
C22_ModeCarried ==
    \A w \in Workers :
        (pc[w] = "handler" /\ lastTake.update = req[w].update) =>
            Priority(hmode[w]) = lastTake.prio

\* C23: every generation-backend call made while a Job is processed is made
\* while the Job's handler holds a permit of the call-admission limiter, so
\* at no time do more Jobs than the limit have a generation call in flight
C23_AdmissionControl ==
    /\ \A w \in Workers : hpc[w] = "call" => w \in permits
    /\ Cardinality({w \in Workers : hpc[w] = "call"}) <= SemaphoreLimit

\* what the backend reports for throttling, unavailability, a timeout or a
\* connection failure
Transient == {"429", "503", "timeout"}

\* C24: a transient backend failure reaches the caller of a retry-decorated
\* operation only after all allowed attempts have been made: a decorated
\* call whose latest run of the operation met such a failure ends, returning
\* or raising, only when the operation has been run `retries` times
C24_TransientAfterAllAttempts ==
    (lastRet.outcome # "none" /\ lastRet.backend \in Transient)
        => lastRet.n = retries

\* C25 (step part): the reply_text call of the terminal plain-text stage
\* completes the Frame: either the next Frame follows, or this was the last
\* Frame and the delivery is complete, or the transport failed with an error
\* that is no rejection
C25_Step ==
    (shw # "idle" /\ Len(tried) = 4 /\ tried' # tried) =>
        \/ shw' = shw /\ sframe' = sframe + 1
        \/ /\ shw' = "idle" /\ lastSend'.outcome = "delivered"
           /\ (shw = "whole" \/ srest = <<>>)
        \/ shw' = "idle" /\ lastSend'.result = "error"

\* C25: the terminal plain-text stage always completes a Frame: no
\* rejection (BadRequest) escapes send_long_message to its caller, and after
\* a Frame has gone through the fallback stages the remaining Frames of the
\* delivery are still sent
C25_TerminalStageCompletes ==
    [](lastSend.outcome = "raised" => lastSend.result # "BadRequest")
    /\ [][C25_Step]_vars

\* C26: the final plain-text fallback is idempotent: applied to a text it
\* has produced, _clean_text_for_plain_send returns that text unchanged
C26_CleanIdempotent ==
    nCleans > 0 => _clean_text_for_plain_send(pclean) = pclean

\* the Frames a text of ScenarioLen characters needs under the ceiling
ScenarioFrames == (ScenarioLen + MAX - 1) \div MAX

\* C27: a rendered text of the scenario length without code spans is
\* delivered as exactly ScenarioFrames (3) Frames, none longer than the
\* ceiling, wherever its spaces, line breaks, digits and links lie
C27_ThreeFrames ==
    /\ shw = "split" => Len(schunk) <= MAX /\ sframe <= ScenarioFrames
    /\ lastSend.outcome # "none" =>
          lastSend.outcome = "delivered" /\ lastSend.frames = ScenarioFrames

\* C28: a fenced block whose body reaches the threshold is sent as exactly
\* one document and replaced in the text by the placeholder before any cut
\* is made and before any frame is sent; a fenced block below the threshold
\* stays in the text and no document is sent for it
C28_CodeAsFile ==
    \A pre \in EdgeTexts, tag \in TagTexts, body \in BodyTexts,
       post \in EdgeTexts :
        (nSends > 0 /\ xtext = Fenced(pre, tag, body, post)) =>
            IF Len(body) >= _CODE_AS_FILE_THRESHOLD
            THEN (sframe >= 1 \/ lastSend.outcome = "delivered") =>
                    /\ Len(xdocs) = 1
                    /\ xdocs[1].code = body
                    /\ sframe >= 1 => stext = pre \o PLACEHOLDER \o post
            ELSE /\ xdocs = <<>>
                 /\ shw # "attach"
                 /\ sframe >= 1 => stext = xtext

\* the modes from the fastest to the slowest, and the value of each
C29_BySpeed == <<"fast_reply", "web", "deepseek_r1", "deep_search",
                 "deep_research">>
C29_Value == [m \in Modes |->
                 CHOOSE i \in 1..5 : C29_BySpeed[i] = m]

C29_Step ==
    (lastFlush' # lastFlush /\ lastFlush'.jobs = 1) =>
        /\ lastPut'.prio = C29_Value[mode[lastFlush'.chat]]
        /\ Priority("unknown") = 3
        /\ \A i, j \in 1..5 :
              i <= j => Priority(C29_BySpeed[i]) <= Priority(C29_BySpeed[j])

\* C29: the priority of a Job is a function of the mode at flush alone:
\* fast_reply gives 1, web 2, deepseek_r1 3, deep_search 4, deep_research 5
\* and an unknown mode 3, so that a faster mode never gets a larger value
\* than a slower one
C29_StaticPriority == [][C29_Step]_vars

C29_Witness ==
    /\ lastFlush.jobs = 1
    /\ mode[lastFlush.chat] = "deep_research"
    /\ lastPut.prio = 5

\* handle_message replaces the timer of session s in this step
C30_Replaces(s) ==
    /\ nInputs' = nInputs + 1
    /\ lastUpdate'[s] = nInputs'
    /\ trackers[s] # 0
    /\ trackers'[s] = nInputs'

\* the replaced timer is pending nowhere: it can run no flush
C30_Cancelled(s) ==
    \A t \in sched' \cup fired' : t.id # trackers[s]

\* the buffer of s has the new fragment appended and nothing else changed
C30_BufferKept(s) ==
    /\ Len(buffers'[s]) = Len(buffers[s]) + 1
    /\ SubSeq(buffers'[s], 1, Len(buffers[s])) = buffers[s]
    /\ buffers'[s][Len(buffers'[s])].id = nInputs'

\* the other sessions keep buffer, latest update and timer
C30_OthersKept(s) ==
    \A o \in Sessions \ {s} :
        /\ buffers'[o] = buffers[o]
        /\ lastUpdate'[o] = lastUpdate[o]
        /\ trackers'[o] = trackers[o]
        /\ {t \in sched' : t.chat = o} = {t \in sched : t.chat = o}
        /\ {t \in fired' : t.chat = o} = {t \in fired : t.chat = o}

C30_Step ==
    \A s \in Sessions :
        C30_Replaces(s) =>
            C30_Cancelled(s) /\ C30_BufferKept(s) /\ C30_OthersKept(s)

C31_OneRequestPerWindow ==
    \A c1, c2 \in Callers :
        (c1 # c2 /\ cpc[c1] = "flight" /\ cpc[c2] = "flight")
            => Target(c1) # Target(c2)

\* C32: every pass of the split loop hands a non-empty chunk to the
\* transport and leaves a rest that is strictly shorter than the rest it
\* started from, so that a text is split in no more passes than it has
\* characters
C32_SplitLoopProgress ==
    shw = "split" =>
      /\ schunk # <<>>
      /\ Len(srest) < Len(stext) - Len(sprefix)
      /\ sframe <= Len(stext)

\* the fragments in a buffer belong to inputs accepted so far, each once
C33_Buffered ==
    /\ \A s \in Sessions : \A i \in 1..Len(buffers[s]) :
          /\ buffers[s][i].id \in 1..nInputs
          /\ \A o \in Sessions : \A j \in 1..Len(buffers[o]) :
                buffers[o][j].id = buffers[s][i].id => (o = s /\ j = i)
    /\ \A s \in Sessions :
          buffers[s] # <<>> => \E t \in sched \cup fired : t.chat = s

\* a step that accepts a fragment appends it to the buffer of its session
C33_Accepted ==
    nInputs' # nInputs =>
        \E s \in Sessions :
            /\ Len(buffers'[s]) = Len(buffers[s]) + 1
            /\ SubSeq(buffers'[s], 1, Len(buffers[s])) = buffers[s]
            /\ buffers'[s][Len(buffers'[s])].id = nInputs'
            /\ \A o \in Sessions \ {s} : buffers'[o] = buffers[o]

\* a flush takes the whole buffer of its session, and nothing else, into
\* one outcome: a Job put on the queue with the joined fragments as its
\* query, or the too-long advisory
C33_Flushed ==
    \A f \in fired \ fired' :
        LET s == f.chat
        IN /\ buffers'[s] = <<>>
           /\ \A o \in Sessions \ {s} : buffers'[o] = buffers[o]
           /\ lastFlush'.chat = s
           /\ lastFlush'.burst = buffers[s]
           /\ buffers[s] # <<>> =>
                \/ /\ lastFlush'.jobs = 1
                   /\ ~lastFlush'.advisory
                   /\ JoinedInOrder(lastFlush'.query, buffers[s])
                   /\ ~lastPut'.raised
                   /\ Len(heap') = Len(heap) + 1
                   /\ \E i \in 1..Len(heap') :
                         /\ heap'[i].chat = s
                         /\ heap'[i].query = lastFlush'.query
                \/ /\ lastFlush'.jobs = 0
                   /\ lastFlush'.advisory
                   /\ heap' = heap

\* a step that neither accepts a fragment nor flushes leaves the buffers
C33_Kept ==
    (nInputs' = nInputs /\ fired \ fired' = {}) => buffers' = buffers

C33_Step == C33_Accepted /\ C33_Flushed /\ C33_Kept

\* C33: every accepted fragment is appended once to the buffer of its own
\* session and stays there until a flush of that session takes the whole
\* buffer into exactly one outcome, a submitted Job holding the fragments
\* as its query or a too-long advisory; no fragment is lost, doubled or
\* put into a Job of another session
C33_FragmentConservation == []C33_Buffered /\ [][C33_Step]_vars

C34_Step ==
    /\ (cpc' # cpc \/ reqs' # reqs) =>
          \A m \in Models : readyIn'[m] >= readyIn[m]
    /\ (cpc' = cpc /\ reqs' = reqs /\ readyIn' # readyIn) =>
          \E d \in 1..(FallbackBase + 2 * HintTicks) :
              readyIn' = [m \in Models |-> Max2(0, readyIn[m] - d)]

\* C34: the next eligible time of a backend never decreases: a step of a
\* caller (request posted, response handled, failure marked) leaves the
\* time every backend still has to wait at least as long as it was, and
\* when time passes the waits of all backends shrink by the time passed
C34_NextOkMonotone == [][C34_Step]_vars

C34_Witness ==
    /\ lastDone.outcome = "returned"
    /\ \E c \in Callers :
          cpc[c] = "flight" /\ readyIn[Target(c)] > ShortHold

\* the delay the recomputation owes after a response with headers h: with
\* the quota exhausted the larger of the reset hint and the retry hint,
\* with quota left the pacing interval of the advertised rate
C35_Delay(h) ==
    IF h.remaining = 0
    THEN Max2(IF h.reset = Absent THEN 0 ELSE h.reset,
              IF h.retry = Absent THEN 0 ELSE h.retry)
    ELSE IF h.remaining > 0 /\ h.limit > 0 THEN 40 \div h.limit
    ELSE 0

C35_Step ==
    nResps' = nResps + 1 =>
        readyIn'[lastResp'.model] >= C35_Delay(lastResp'.h)

\* C35: after every response, successful or not, the backend's next
\* eligible time is at least now + delay, where delay is the larger of the
\* reset hint and the retry hint when the remaining quota is exhausted and
\* the pacing interval 1 / rate otherwise
C35_Recomputation == [][C35_Step]_vars

RECURSIVE C36_Pow(_, _)
C36_Pow(b, n) == IF n = 0 THEN 1 ELSE b * C36_Pow(b, n - 1)

C36_Step ==
    \A c \in Callers :
        (rpc[c] = "run" /\ rpc'[c] = "backoff" /\ rlast'[c] # "429") =>
            rsleep'[c] = retry_delay * C36_Pow(retry_backoff, rattempt[c])

\* C36: after a failed attempt that is not a throttling failure and that
\* another attempt follows, the decorator waits delay * backoff^(k-1),
\* k being the number of the failed attempt: 2 s, 4 s, 8 s with the
\* defaults
C36_ExponentialBackoff == [][C36_Step]_vars

\* the cut of the first pass as _find_safe_cut and the ceiling give it,
\* before it is adjusted
C37_Cut(text) ==
    LET c0 == _find_safe_cut(text, MAX) IN IF c0 <= 0 THEN MAX ELSE c0

\* C37: when the computed cut falls inside the label of a link, between
\* its brackets, the frame ends just before the opening bracket; when it
\* falls inside the URL, between its parentheses, the frame ends just
\* before the opening parenthesis
C37_LinkRelocation ==
    \A pre \in PreTexts, label \in LabelTexts, url \in UrlTexts,
       post \in EdgeTexts :
        (shw = "split" /\ sframe = 1
            /\ stext = Link(pre, label, url, post)) =>
            LET lb == Len(pre)
                rb == lb + 1 + Len(label)
                lp == rb + 1
                rp == lp + 1 + Len(url)
                cut == C37_Cut(stext)
            IN /\ (lb < cut /\ cut <= rb) => Len(sraw) = lb
               /\ (lp < cut /\ cut <= rp) => Len(sraw) = lp

\* ---------------------------------------------------------------------
\* Delivery of a generated text by a mode handler (SpecDeliver): every
\* handler renders final_answer with escape_markdown_v2 and hands the
\* result to send_long_message, whose first step is the extraction of
\* the large code blocks.
\* ---------------------------------------------------------------------
NBSP == "nbsp"           \* the no-break space U+00A0

\* normalize(text): the typographic spaces become plain spaces
normalize(text) ==
    [i \in 1..Len(text) |-> IF text[i] = NBSP THEN " " ELSE text[i]]

\* strip_think(text) on a text without think tags: str.strip()
RECURSIVE strip_think(_)
strip_think(text) ==
    IF text = <<>> THEN <<>>
    ELSE IF Head(text) \in {" ", "\n"} THEN strip_think(Tail(text))
    ELSE IF text[Len(text)] \in {" ", "\n"}
         THEN strip_think(SubSeq(text, 1, Len(text) - 1))
    ELSE text

_SPECIAL == {BS, "_", "[", "]", "(", ")", "~", ">", "#", "+", "-", "=",
             "|", "{", "}", ".", "!"}

\* _SPECIAL.sub(r'\\\1', seg) on a segment of letters and specials
RECURSIVE EscapeSeg(_)
EscapeSeg(seg) ==
    IF seg = <<>> THEN <<>>
    ELSE (IF Head(seg) \in _SPECIAL THEN <<BS, Head(seg)>>
          ELSE <<Head(seg)>>) \o EscapeSeg(Tail(seg))

\* offsets of the backticks, and of the fences, of t at or after from
TicksFrom(t, from) == {i \in from..(Len(t) - 1) : t[i + 1] = TICK}
FencesFrom(t, from) == {i \in from..(Len(t) - 3) : IsFenceAt(t, i)}

NoSpan == [start |-> -1, end |-> -1]
Lowest(S) == CHOOSE x \in S : \A y \in S : x <= y

\* the first match of _CODE_SPLIT in t: a closed fence at the first
\* backtick, else the inline span up to the next backtick, else none
CodeSpan(t) ==
    LET ticks == TicksFrom(t, 0)
        i == Lowest(ticks)
    IN IF ticks = {} THEN NoSpan
       ELSE IF IsFenceAt(t, i) /\ FencesFrom(t, i + 3) # {}
            THEN [start |-> i, end |-> Lowest(FencesFrom(t, i + 3)) + 3]
       ELSE IF TicksFrom(t, i + 1) # {}
            THEN [start |-> i, end |-> Lowest(TicksFrom(t, i + 1)) + 1]
       ELSE NoSpan

\* the loop over _CODE_SPLIT.split(text): code parts are kept, the
\* parts between them are escaped
RECURSIVE EscapeParts(_)
EscapeParts(t) ==
    LET m == CodeSpan(t)
    IN IF m = NoSpan THEN EscapeSeg(t)
       ELSE EscapeSeg(Slice(t, 0, m.start)) \o Slice(t, m.start, m.end)
            \o EscapeParts(Slice(t, m.end, Len(t)))

escape_markdown_v2(text) ==
    IF text = <<>> THEN text ELSE EscapeParts(strip_think(normalize(text)))

\* the generated texts: one fenced block whose body may hold a no-break
\* space, between edges the renderer escapes or strips
AnswerBodies == UNION {[1..n -> {"a", "\n", NBSP}] : n \in 0..MaxBody}
AnswerEdges == {<<>>, <<"a">>, <<".">>, <<"\n">>}
AnswerTexts ==
    {Fenced(pre, tag, body, post) :
        pre \in AnswerEdges \ {<<"\n">>}, tag \in TagTexts,
        body \in AnswerBodies, post \in AnswerEdges}

\* the last two statements of a mode handler:
\*   telegram_text = escape_markdown_v2(final_answer)
\*   await send_long_message(update, telegram_text, MARKDOWN_V2)
HandlerDelivers ==
    /\ shw = "idle"
    /\ nSends < MaxSends
    /\ nSends' = nSends + 1
    /\ \E handler \in Modes, final_answer \in AnswerTexts :
         /\ dtext' = final_answer
         /\ dhandler' = handler
         /\ ExtractBegins(escape_markdown_v2(final_answer), TRUE)
    /\ UNCHANGED lastSend
    /\ UNCHANGED <<botVars, govVars, retryVars, admitVars, cleanVars,
                   paceVars>>

DeliverFrame == Reply

NextDeliver == HandlerDelivers \/ reply_document \/ DeliverFrame

SpecDeliver == Init /\ [][NextDeliver]_vars

\* C38: extraction of the oversized code blocks is the first step of
\* delivering a generated text in every mode handler: the text that
\* _extract_code_to_files works on is the text the handler generated, not
\* yet rendered by escape_markdown_v2.
C38_ExtractionFirst ==
    dhandler # "none" => xtext = dtext

\* C39: when no backend is preferred the primary is the backend with the
\* smaller remaining wait max(0, next-eligible-time - now), LLAMA_FREE when
\* the two waits are equal (both zero included), and the alternate is the
\* other backend of the pair, never the primary itself.
C39_Wait(m) == Max2(0, readyIn[m])
C39_ChooseBySmallerWait ==
    LET p == _choose_model_prefer_llama
        s == _other_free(p)
    IN /\ p \in Models
       /\ \A m \in Models : C39_Wait(p) <= C39_Wait(m)
       /\ C39_Wait(LLAMA_FREE) = C39_Wait(DEEPSEEK_FREE) => p = LLAMA_FREE
       /\ s \in Models \ {p}
       /\ \A c \in Callers :
            cpc[c] # "idle" => Target(c) \in Models
                               /\ (attempt[c] = 2 => Target(c) # primary[c])

\* a caller's request is in flight to DEEPSEEK_FREE as primary while
\* LLAMA_FREE has the longer wait; and both backends wait equally long
C39_Witness ==
    /\ \E c \in Callers :
         /\ cpc[c] = "flight"
         /\ attempt[c] = 1
         /\ primary[c] = DEEPSEEK_FREE
    /\ C39_Wait(LLAMA_FREE) > C39_Wait(DEEPSEEK_FREE)
    /\ _choose_model_prefer_llama = DEEPSEEK_FREE
C39_TieWitness ==
    /\ C39_Wait(LLAMA_FREE) = C39_Wait(DEEPSEEK_FREE)
    /\ C39_Wait(LLAMA_FREE) > 0

\* C40: with 3 workers and 5 permits, each handler holding at most one
\* permit at a time, the call-admission limiter is never saturated: locked()
\* is false in every reachable state, so the waiting-in-queue warning is not
\* sent, and a handler that reaches async with llm_semaphore enters at once.
C40_NeverSaturated ==
    /\ ~SemaphoreLocked
    /\ \A w \in Workers :
         (hpc[w] = "ready" /\ Head(hprog[w]).guarded)
            => ENABLED GuardedCall(w)

\* every worker's handler is inside a guarded generation call at once
C40_Witness ==
    /\ Cardinality(permits) = worker_count
    /\ \A w \in Workers : hpc[w] = "call" /\ Head(hprog[w]).guarded

====
